---------------------------- MODULE Spec2Model ----------------------------
(***************************************************************************)
(* Derivatio Energy: the day-ahead price source (app/services/entsoe.py)   *)
(* and the simulation orchestrator with its schedulers                     *)
(* (app/core/optimizer.py).                                                *)
(*                                                                         *)
(* Units.  Python floats are modelled in fixed point:                      *)
(*   - a price in a returned series is in hundredths of an ore/kWh (the    *)
(*     code rounds every emitted price to two decimals);                   *)
(*   - a price read from the XML is in hundredths of a EUR/MWh;            *)
(*   - a point in time is a number of minutes since 2025-01-01T00:00, and  *)
(*     a timestamp string "%Y-%m-%dT%H:00:00" is the hour it names         *)
(*     (minutes \div 60): the strings sort as these integers do;           *)
(*   - a date is a number of days since 2025-01-01;                        *)
(*   - a power (kW) or an energy (kWh) of the simulation is a whole number *)
(*     of grid units of 0.834 kW (kWh); the values reported per hour are   *)
(*     rounded to two decimals and kept in hundredths of a kW;             *)
(*   - a fee of the tariff is in 1/10000 kr, as a spot price in hundredths *)
(*     of an ore is; a safety margin is in percent.                        *)
(***************************************************************************)
EXTENDS Integers, Sequences, FiniteSets, TLC

VARIABLES
    price_cache,   \* entsoe._price_cache: cache key -> series
    pc,            \* per caller: "idle" or "awaiting" (suspended in client.get)
    cur,           \* per caller: the arguments of the call in flight
    http_calls,    \* number of HTTP GETs issued so far
    ncalls,        \* number of calls of fetch_day_ahead_prices started so far
    last,          \* the call that completed most recently, and its outcome
    sim_pc,        \* run_simulation: "idle", "pending" (request received), "done";
                   \* run_sim: "received", "enriching" (awaiting the prices), "done";
                   \* run_and_store_sim: "received", "enriching_to_store",
                   \* "done", "failed" (answered with HTTP 500)
    inp,           \* the SimulationInput of the request
    lp_run,        \* the primary call of _lp_ev_schedule: its arguments and outcome
    result,        \* the SimulationResult returned
    last_known_good,  \* optimizer._last_known_good: property id -> entry
    now,           \* the wall clock read by datetime.now()
    simulations,   \* the table simulations of the database: one row per insert
    mc_run,        \* the trials of _monte_carlo_savings: how many ran, the
                   \* arguments of their calls of _lp_ev_schedule, their savings
    fn_call,       \* a function called on its own: its name and arguments
    fn_ret         \* what that call returned

fetch_vars == <<price_cache, pc, cur, http_calls, ncalls, last>>

sim_vars == <<sim_pc, inp, lp_run, result, last_known_good, now, simulations,
              mc_run>>

fn_vars == <<fn_call, fn_ret>>

vars == <<price_cache, pc, cur, http_calls, ncalls, last,
          sim_pc, inp, lp_run, result, last_known_good, now, simulations,
          mc_run, fn_call, fn_ret>>

-----------------------------------------------------------------------------
(* Bounds of the model *)

\* calls of fetch_day_ahead_prices in one behaviour
MaxCalls == 2

\* dates range over 0..MaxDay
MaxDay == 1

\* concurrent callers (requests served by the event loop)
Callers == {1, 2}

Days == 0..MaxDay

-----------------------------------------------------------------------------
(* Constants of entsoe.py *)

AREA_CODES == {"SE1", "SE2", "SE3", "SE4"}

\* EUR_SEK * 0.1 = 1.12, in hundredths
EUR_MWH_TO_ORE_KWH == 112

\* 0.0 ore/kWh
PRICE_MIN_ORE == 0

\* 800.0 ore/kWh, in hundredths
PRICE_MAX_ORE == 80000

\* 120.0 ore/kWh, in hundredths
FALLBACK_PRICE_ORE == 12000

-----------------------------------------------------------------------------
(* Time and fixed point *)

\* strftime("%Y-%m-%dT%H:00:00"): the minutes are dropped, the hour is kept
TsStr(minutes) == minutes \div 60

\* datetime.combine(d, datetime.min.time()): midnight of date d, in minutes
Midnight(d) == d * 24 * 60

\* A price before rounding is the exact fraction num/den of 0.0001 ore/kWh: the
\* product of a price in hundredths of a EUR/MWh with 1.12 has den = 1, and
\* every halving of the running mean doubles den.
Exact(v) == [num |-> v, den |-> 1]

RECURSIVE Reduced(_)
\* the same fraction with the common factors 2 removed
Reduced(x) ==
    IF x.den > 1 /\ x.num % 2 = 0
    THEN Reduced([num |-> x.num \div 2, den |-> x.den \div 2])
    ELSE x

\* the exact value lies midway between two hundredths of an ore/kWh
IsTie(x) == 2 * (x.num % (100 * x.den)) = 100 * x.den

\* round(x, 2) of a price, as hundredths of an ore/kWh: the nearest hundredth.
\* The code rounds a float; when the exact value is midway between two
\* hundredths the float lies just above or just below it (the factor is the
\* float 1.1199999999999999 and every product and halving is rounded), and
\* round() follows the float: above says on which side it lies.
Round2Fine(x, above) ==
    LET u == 100 * x.den
        q == x.num \div u
        r == x.num % u
    IN  IF 2 * r < u THEN q
        ELSE IF 2 * r > u THEN q + 1
        ELSE IF above THEN q + 1 ELSE q

Max(a, b) == IF a >= b THEN a ELSE b

Min(a, b) == IF a <= b THEN a ELSE b

-----------------------------------------------------------------------------
(* entsoe._fallback_prices *)

RECURSIVE FallbackHours(_, _, _)
\* the iterations of the while loop from current up to stop: current and stop
\* in minutes, prices the list built so far
FallbackHours(current, stop, prices) ==
    IF current < stop
    THEN FallbackHours(current + 60, stop,
            Append(prices, [timestamp |-> TsStr(current),
                            price_ore_kwh |-> FALLBACK_PRICE_ORE]))
    ELSE prices

RECURSIVE FallbackLoop(_, _, _)
\* the while loop, taken 24 iterations at a time; the list built so far is
\* computed before the next 24 (Len(prices) >= 0 holds of every list), which
\* keeps the evaluation of a month of hours shallow
FallbackLoop(current, end_dt, prices) ==
    IF Len(prices) >= 0 /\ current < end_dt
    THEN FallbackLoop(Min(end_dt, current + 24 * 60), end_dt,
            FallbackHours(current, Min(end_dt, current + 24 * 60), prices))
    ELSE prices

\* the period taken to end at 00:00 of its last day
fallback_prices_end_exclusive(start, end) ==
    FallbackLoop(Midnight(start), Midnight(end), <<>>)

fallback_prices(start, end) ==
    FallbackLoop(Midnight(start), Midnight(end) + 24 * 60, <<>>)

-----------------------------------------------------------------------------
(* entsoe._parse_resolution *)

\* every period read as hourly
parse_resolution_hourly(resolution) == 60

parse_resolution(resolution) ==
    CASE resolution = "PT60M" -> 60
      [] resolution = "PT15M" -> 15
      [] resolution = "PT30M" -> 30
      [] resolution = "PT1H"  -> 60
      [] OTHER -> 60

-----------------------------------------------------------------------------
(* entsoe._parse_xml                                                       *)
(*                                                                         *)
(* An XML document is [wellformed, periods]: periods are the Period        *)
(* elements of all TimeSeries in document order.  A period is              *)
(* [start_ok, start, resolution, points]: start_ok says that               *)
(* timeInterval/start is present and parses, start is that instant in UTC  *)
(* minutes, resolution is the text of the resolution element ("" when the  *)
(* element is missing).  A point is [ok, position, price]: ok says that    *)
(* position and price.amount are present and numeric, price is in          *)
(* hundredths of a EUR/MWh.  A price.amount with more than two decimals    *)
(* and a start with an offset other than Z are outside the model.          *)

\* lines 262-289: one Point folded into the results dict (hour -> exact price)
AddPoint(results, period_start_utc, resolution_minutes, point) ==
    IF ~point.ok THEN results
    ELSE
      LET offset_minutes   == (point.position - 1) * resolution_minutes
          point_time_utc   == period_start_utc + offset_minutes
          point_time_local == point_time_utc + 60
          price_ore        == point.price * EUR_MWH_TO_ORE_KWH
          ts_str           == TsStr(point_time_local)
      IN  IF ts_str \in DOMAIN results
          THEN [results EXCEPT ![ts_str] =
                   Reduced([num |-> @.num + price_ore * @.den, den |-> 2 * @.den])]
          ELSE results @@ (ts_str :> Exact(price_ore))

RECURSIVE AddPoints(_, _, _, _)
AddPoints(results, period_start_utc, resolution_minutes, points) ==
    IF points = <<>> THEN results
    ELSE AddPoints(AddPoint(results, period_start_utc, resolution_minutes, Head(points)),
                   period_start_utc, resolution_minutes, Tail(points))

\* lines 235-289: one Period
AddPeriod(results, period) ==
    IF ~period.start_ok THEN results
    ELSE
      LET resolution_minutes ==
              parse_resolution(IF period.resolution = "" THEN "PT60M"
                               ELSE period.resolution)
      IN  AddPoints(results, period.start, resolution_minutes, period.points)

RECURSIVE AddPeriods(_, _)
AddPeriods(results, periods) ==
    IF periods = <<>> THEN results
    ELSE AddPeriods(AddPeriod(results, Head(periods)), Tail(periods))

SetMin(S) == CHOOSE x \in S : \A y \in S : x <= y

RECURSIVE Sorted(_)
\* sorted(keys): the elements of a finite set of integers, ascending
Sorted(S) ==
    IF S = {} THEN <<>>
    ELSE LET m == SetMin(S) IN <<m>> \o Sorted(S \ {m})

\* the local hours of the document whose exact price is midway between two
\* hundredths
TieHours(xml_text) ==
    IF ~xml_text.wellformed THEN {}
    ELSE LET results == AddPeriods(<<>>, xml_text.periods)
         IN  {ts_str \in DOMAIN results : IsTie(results[ts_str])}

\* what the float arithmetic can do to a document: for each such hour, whether
\* the float price lies above the exact one (the set of the hours where it does)
FloatErrors(xml_text) == SUBSET TieHours(xml_text)

\* Returns [exc, prices]: exc is "ENTSOEParseError" when ET.fromstring fails.
\* above is the set of hours whose float price lies above an exact tie.
parse_xml(xml_text, above) ==
    IF ~xml_text.wellformed
    THEN [exc |-> "ENTSOEParseError", prices |-> <<>>]
    ELSE
      LET results == AddPeriods(<<>>, xml_text.periods)
          sorted_timestamps == Sorted(DOMAIN results)
      IN  [exc |-> "none",
           prices |-> [i \in 1..Len(sorted_timestamps) |->
                         [timestamp |-> sorted_timestamps[i],
                          price_ore_kwh |-> Round2Fine(results[sorted_timestamps[i]],
                                                     sorted_timestamps[i] \in above)]]]

-----------------------------------------------------------------------------
(* entsoe._validate_and_clamp *)

\* one entry with the price held between PRICE_MIN_ORE and PRICE_MAX_ORE
ClampEntry_Capped(entry) ==
    [timestamp |-> entry.timestamp,
     price_ore_kwh |-> Min(PRICE_MAX_ORE, Max(PRICE_MIN_ORE, entry.price_ore_kwh))]

\* lines 331-349: one entry; round(., 2) of a price already in hundredths is
\* that price
ClampEntry(entry) ==
    LET price == IF entry.price_ore_kwh < 0 THEN 0 ELSE entry.price_ore_kwh
    IN  [timestamp |-> entry.timestamp,
         price_ore_kwh |-> Max(PRICE_MIN_ORE, price)]

validate_and_clamp(prices) ==
    [i \in 1..Len(prices) |-> ClampEntry(prices[i])]

-----------------------------------------------------------------------------
(* Inputs of the price source *)

\* grid_area arguments: a zone, the same zone in lower case, an unknown zone
Areas == {"SE3", "se3", "SE9"}

\* str.upper() on the area strings of the model
Upper(a) == IF a = "se3" THEN "SE3" ELSE a

\* entsoe_api_token arguments: missing, or set
Tokens == {"", "token"}

Pt(position, price) == [ok |-> TRUE, position |-> position, price |-> price]

\* A document that is not XML
DocMalformed == [wellformed |-> FALSE, periods |-> <<>>]

\* A publication document without any TimeSeries
DocEmpty == [wellformed |-> TRUE, periods |-> <<>>]

\* One PT60M period from 2024-12-31T23:00Z (local 2025-01-01T00:00) with 24 points
DocDay ==
    [wellformed |-> TRUE,
     periods |-> << [start_ok |-> TRUE, start |-> -60, resolution |-> "PT60M",
                     points |-> [i \in 1..24 |-> Pt(i, 4000 + 100 * i)]] >>]

\* One PT60M period with three points: 45.32, a negative price, a price whose
\* conversion lies above PRICE_MAX_ORE; then a point without a price
DocShort ==
    [wellformed |-> TRUE,
     periods |-> << [start_ok |-> TRUE, start |-> -60, resolution |-> "PT60M",
                     points |-> << Pt(1, 4532), Pt(2, -1500), Pt(3, 90000),
                                   [ok |-> FALSE, position |-> 4, price |-> 0] >>] >>]

Docs == {DocMalformed, DocEmpty, DocDay, DocShort}

\* What `await client.get(...)` can end in: an httpx exception, or a response
\* with a status code and a body.  ReadError stands for the transport errors
\* that are neither a TimeoutException nor a ConnectError.  The redirect
\* carries a price document as its body.
Responses ==
    {[kind |-> k, status_code |-> 0, text |-> DocEmpty] :
        k \in {"TimeoutException", "ConnectError", "ReadError"}}
    \cup {[kind |-> "response", status_code |-> c, text |-> DocMalformed] :
        c \in {401, 400, 500}}
    \cup {[kind |-> "response", status_code |-> 302, text |-> DocDay]}
    \cup {[kind |-> "response", status_code |-> 200, text |-> d] : d \in Docs}

NoArgs == [id |-> 0, grid_area |-> "", start |-> 0, end |-> 0, entsoe_api_token |-> ""]

NoCall == [id |-> 0, grid_area |-> "", start |-> 0, end |-> 0, entsoe_api_token |-> "",
           raised |-> "none", source |-> "none", series |-> <<>>, http |-> 0]

-----------------------------------------------------------------------------
(* entsoe._fetch_xml: [exc, text]; exc is "none" when the XML text is returned *)

\* the token check left out: an empty token is sent to the upstream
token_check_dropped(token) == FALSE

\* lines 159-160
fetch_xml_token_missing(token) == token = ""

\* lines 172-198, given what client.get ended in; raise_for_status() raises
\* HTTPStatusError for every status outside 200..299 (redirects are not
\* followed)
fetch_xml(resp) ==
    CASE resp.kind = "TimeoutException" ->
            [exc |-> "ENTSOEUnavailableError", text |-> DocEmpty]
      [] resp.kind = "ConnectError" ->
            [exc |-> "ENTSOEUnavailableError", text |-> DocEmpty]
      [] resp.kind = "response" ->
            IF resp.status_code = 401
            THEN [exc |-> "ENTSOEAuthError", text |-> DocEmpty]
            ELSE IF resp.status_code = 400
            THEN [exc |-> "ENTSOEUnavailableError", text |-> DocEmpty]
            ELSE IF resp.status_code < 200 \/ resp.status_code >= 300
            THEN [exc |-> "ENTSOEUnavailableError", text |-> DocEmpty]
            ELSE [exc |-> "none", text |-> resp.text]
      [] OTHER -> [exc |-> resp.kind, text |-> DocEmpty]

-----------------------------------------------------------------------------
(* entsoe.fetch_day_ahead_prices *)

\* the lookup falling back to the area itself: every non-empty area passes
AreaKnown_Unchecked(grid_area) == grid_area # ""

\* lines 88-89
AreaKnown(grid_area) == Upper(grid_area) \in AREA_CODES

\* line 96
CacheKey(args) == <<args.grid_area, args.start, args.end>>

\* the lookup made with the upper-cased area while entries are stored under
\* the area as given
CacheHit_UpperKey(cache, args) ==
    <<Upper(args.grid_area), args.start, args.end>> \in DOMAIN cache
    /\ Upper(args.grid_area) = args.grid_area

\* line 97
CacheHit(cache, args) == CacheKey(args) \in DOMAIN cache

\* every returned series is stored
Outcome_StoreReturned(raised, source, series, store) ==
    [raised |-> raised, source |-> source, series |-> series,
     store |-> series # <<>>]

Outcome(raised, source, series, store) ==
    [raised |-> raised, source |-> source, series |-> series, store |-> store]

\* lines 102-144, from the result of _fetch_xml on: what the call returns or
\* raises, and whether it stores the series in the cache; above as in parse_xml
FetchOutcome(args, xml, above) ==
    IF xml.exc = "ENTSOEAuthError"
    THEN Outcome("none", "fallback", fallback_prices(args.start, args.end), FALSE)
    ELSE IF xml.exc = "ENTSOEUnavailableError"
    THEN Outcome("none", "fallback", fallback_prices(args.start, args.end), FALSE)
    ELSE IF xml.exc # "none"
    THEN Outcome(xml.exc, "none", <<>>, FALSE)
    ELSE
      LET parsed == parse_xml(xml.text, above)
      IN  IF parsed.exc = "ENTSOEParseError"
          THEN Outcome("none", "fallback", fallback_prices(args.start, args.end), FALSE)
          ELSE IF parsed.prices = <<>>
          THEN Outcome("none", "fallback", fallback_prices(args.start, args.end), FALSE)
          ELSE Outcome("none", "upstream", validate_and_clamp(parsed.prices), TRUE)

Completed(args, out, http) ==
    [id |-> args.id, grid_area |-> args.grid_area, start |-> args.start,
     end |-> args.end, entsoe_api_token |-> args.entsoe_api_token,
     raised |-> out.raised, source |-> out.source, series |-> out.series,
     http |-> http]

\* The call up to its first suspension: lines 88-99 and, on a cache miss, the
\* entry of _fetch_xml up to `await client.get` (lines 159-174).
Begin(p, args) ==
    /\ ncalls' = ncalls + 1
    /\ IF ~AreaKnown(args.grid_area)
       THEN /\ last' = Completed(args, Outcome("ValueError", "none", <<>>, FALSE), 0)
            /\ UNCHANGED <<price_cache, pc, cur, http_calls>>
       ELSE IF CacheHit(price_cache, args)
       THEN /\ last' = Completed(args,
                           Outcome("none", "cache", price_cache[CacheKey(args)], FALSE), 0)
            /\ UNCHANGED <<price_cache, pc, cur, http_calls>>
       ELSE IF fetch_xml_token_missing(args.entsoe_api_token)
       THEN /\ last' = Completed(args,
                           FetchOutcome(args, [exc |-> "ENTSOEAuthError", text |-> DocEmpty], {}), 0)
            /\ UNCHANGED <<price_cache, pc, cur, http_calls>>
       ELSE /\ pc' = [pc EXCEPT ![p] = "awaiting"]
            /\ cur' = [cur EXCEPT ![p] = args]
            /\ http_calls' = http_calls + 1
            /\ UNCHANGED <<price_cache, last>>

\* The rest of the call once client.get has ended in resp: lines 176-198 of
\* _fetch_xml, then lines 104-144.
Resume(p, resp) ==
    LET args == cur[p]
        xml  == fetch_xml(resp)
    IN  \E above \in FloatErrors(xml.text) :
          LET out == FetchOutcome(args, xml, above)
          IN  /\ price_cache' =
                    IF out.store
                    THEN [k \in DOMAIN price_cache \cup {CacheKey(args)} |->
                            IF k = CacheKey(args) THEN out.series ELSE price_cache[k]]
                    ELSE price_cache
              /\ last' = Completed(args, out, 1)
              /\ pc' = [pc EXCEPT ![p] = "idle"]
              /\ cur' = [cur EXCEPT ![p] = NoArgs]
              /\ UNCHANGED <<http_calls, ncalls>>

\* entsoe.clear_price_cache(): _price_cache.clear()
clear_price_cache(cache) == <<>>

-----------------------------------------------------------------------------
(* Simulation: time grid, units and the tariff's peak hours *)

\* thousandths of a kW in one grid unit (0.834 kW)
KwUnit == 2 * 417

\* round(float(v), 2) of a power of v grid units, in hundredths of a kW: the
\* nearest hundredth; v * KwUnit is even, so the thousandths are never 5 and
\* no power lies midway between two hundredths
Round2Kw(v) ==
    LET m == v * KwUnit
        q == m \div 10
        r == m % 10
    IN  IF r < 5 THEN q ELSE q + 1

\* datetime.hour, datetime.weekday() and datetime.month of a point in time
\* given in hours since 2025-01-01T00:00 (a Wednesday)
Hour(dt) == dt % 24

Weekday(dt) == ((dt \div 24) + 2) % 7

MonthLengths == <<31, 28, 31, 30, 31, 30, 31, 31, 30, 31, 30, 31>>

RECURSIVE MonthFrom(_, _)
MonthFrom(day, m) ==
    IF m = 12 \/ day < MonthLengths[m] THEN m
    ELSE MonthFrom(day - MonthLengths[m], m + 1)

Month(dt) == MonthFrom((dt \div 24) % 365, 1)

\* pd.date_range(period_start 00:00, period_end 00:00, freq="h"): both ends
\* included, one entry per hour; empty when period_end is before period_start
Timestamps(period_start, period_end) ==
    IF period_end < period_start THEN <<>>
    ELSE [i \in 1..(24 * (period_end - period_start) + 1) |->
             24 * period_start + (i - 1)]

\* is_peak_hour with the hour peak_hours_end counted as a peak hour
is_peak_hour_end_included(tariff, dt) ==
    IF tariff.peak_weekdays_only /\ Weekday(dt) >= 5 THEN FALSE
    ELSE IF Month(dt) \notin tariff.peak_months THEN FALSE
    ELSE tariff.peak_hours_start <= Hour(dt) /\ Hour(dt) <= tariff.peak_hours_end

\* GridTariff.is_peak_hour
is_peak_hour(tariff, dt) ==
    IF tariff.peak_weekdays_only /\ Weekday(dt) >= 5 THEN FALSE
    ELSE IF Month(dt) \notin tariff.peak_months THEN FALSE
    ELSE tariff.peak_hours_start <= Hour(dt) /\ Hour(dt) < tariff.peak_hours_end

-----------------------------------------------------------------------------
(* optimizer._typkurva_baslast and optimizer._syntetiska_spotpriser          *)
(*                                                                         *)
(* The random generator is an input: each function draws once per hour,    *)
(* and r[i] / DrawScale, between 0 and 1, is the variate behind the draw    *)
(* of hour i.  The values returned are exact: those of _typkurva_baslast   *)
(* in 1/(100 * DrawScale) of a grid unit (sub_kw is in grid units, the     *)
(* ranges in percent), those of _syntetiska_spotpriser in 1/DrawScale of   *)
(* an ore/kWh.                                                             *)

\* the resolution of a variate
DrawScale == 100 * 100

\* np.random.uniform(low, high) = low + (high - low) * variate, in 1/DrawScale
\* of the unit of low and high
uniform(low, high, r) == low * DrawScale + (high - low) * r

typkurva_baslast(n, sub_kw, r) ==
    [i \in 1..n |->
        LET h == (i - 1) % 24
        IN  IF 8 <= h /\ h < 18 THEN sub_kw * uniform(30, 55, r[i])
            ELSE IF (6 <= h /\ h < 8) \/ (18 <= h /\ h < 22)
                 THEN sub_kw * uniform(12, 28, r[i])
            ELSE sub_kw * uniform(4, 12, r[i])]

\* hour 5 counted with the night hours
syntetiska_spotpriser_night_to_five(n, r) ==
    LET base == 120 * DrawScale
    IN  [i \in 1..n |->
            LET h == (i - 1) % 24
            IN  IF h \in {7, 8, 9, 17, 18, 19, 20} THEN base + uniform(30, 80, r[i])
                ELSE IF 0 <= h /\ h <= 5 THEN Max(0, base + uniform(-20, 10, r[i]))
                ELSE base + uniform(0, 40, r[i])]

syntetiska_spotpriser(n, r) ==
    LET base == 120 * DrawScale
    IN  [i \in 1..n |->
            LET h == (i - 1) % 24
            IN  IF h \in {7, 8, 9, 17, 18, 19, 20} THEN base + uniform(30, 80, r[i])
                ELSE IF 0 <= h /\ h <= 4 THEN Max(0, base + uniform(-20, 10, r[i]))
                ELSE base + uniform(0, 40, r[i])]

-----------------------------------------------------------------------------
(* optimizer._naive_ev_schedule *)

\* the window test with the departure hour included
InWindow_DepartureIncluded(h, arrival_hour, departure_hour) ==
    IF arrival_hour > departure_hour
    THEN h >= arrival_hour \/ h <= departure_hour
    ELSE arrival_hour <= h /\ h <= departure_hour

\* lines 126-131 and 185-190: the charging-window test of one hour

InWindow(h, arrival_hour, departure_hour) ==
    IF arrival_hour > departure_hour
    THEN h >= arrival_hour \/ h < departure_hour
    ELSE arrival_hour <= h /\ h < departure_hour

\* lines 123-131: the indices of the hours in the window
Window(timestamps, arrival_hour, departure_hour) ==
    {i \in 1..Len(timestamps) :
        InWindow(Hour(timestamps[i]), arrival_hour, departure_hour)}

RECURSIVE SortedBySpot(_, _)
\* sorted(window, key=lambda i: spot[i]): ascending price, equal prices in
\* index order (the sort is stable and window is in index order)
SortedBySpot(window, spot) ==
    IF window = {} THEN <<>>
    ELSE LET i == CHOOSE i \in window :
                     \A j \in window :
                         spot[i] < spot[j] \/ (spot[i] = spot[j] /\ i <= j)
         IN  <<i>> \o SortedBySpot(window \ {i}, spot)

RECURSIVE NaiveLoop(_, _, _, _)
\* lines 133-138
NaiveLoop(order, ev, remaining, fleet_kw) ==
    IF order = <<>> \/ remaining <= 0 THEN ev
    ELSE LET charge == Min(fleet_kw, remaining)
         IN  NaiveLoop(Tail(order), [ev EXCEPT ![Head(order)] = charge],
                       remaining - charge, fleet_kw)

\* the window walked in index order
naive_ev_schedule_index_order(n, fleet_kw, kwh_needed, arrival_hour, departure_hour, spot, timestamps) ==
    NaiveLoop(Sorted(Window(timestamps, arrival_hour, departure_hour)),
              [i \in 1..n |-> 0], kwh_needed, fleet_kw)

naive_ev_schedule(n, fleet_kw, kwh_needed, arrival_hour, departure_hour, spot, timestamps) ==
    NaiveLoop(SortedBySpot(Window(timestamps, arrival_hour, departure_hour), spot),
              [i \in 1..n |-> 0], kwh_needed, fleet_kw)

-----------------------------------------------------------------------------
(* optimizer._lp_ev_schedule                                               *)
(*                                                                         *)
(* The solver is modelled by what it may return.  The variables x[t] range *)
(* over whole grid units; the inputs of the model are multiples of six     *)
(* units, so that the vertices of the LP over windows of up to three hours *)
(* lie on the grid.  M and P are eliminated: with fees >= 0 the least      *)
(* admissible M is the largest total load (at least 0) and the least P is  *)
(* the largest total load of a peak hour.                                  *)

RECURSIVE SumAt(_, _, _)
\* f[order[1]] + ... + f[order[k]]
SumAt(f, order, k) ==
    IF k = 0 THEN 0 ELSE f[order[k]] + SumAt(f, order, k - 1)

RECURSIVE MaxAt(_, _, _, _)
\* max(floor, f[order[1]], ..., f[order[k]])
MaxAt(f, order, k, floor) ==
    IF k = 0 THEN floor ELSE MaxAt(f, order, k - 1, Max(floor, f[order[k]]))

\* the energy constraint left out of the problem
lp_energy_unconstrained(delivered, kwh_needed) == TRUE

\* line 196: sum of x >= kwh_needed
lp_energy_constraint(delivered, kwh_needed) == delivered >= kwh_needed

\* the ceiling taken without the safety margin
effective_sub_without_margin(subscription_kw, safety_margin) ==
    subscription_kw * 100

\* line 168: subscription_kw * (1 - safety_margin), in hundredths of a unit
effective_sub(subscription_kw, safety_margin) ==
    subscription_kw * (100 - safety_margin)

\* lines 177 and 192-200: the schedules that satisfy the bounds of x, the
\* window constraint, the energy constraint and the ceiling at every hour
lp_feasible(n, base_load, fleet_kw, kwh_needed, window, subscription_kw, safety_margin) ==
    LET ceiling == effective_sub(subscription_kw, safety_margin)
        order   == Sorted(window)
    IN  IF \E t \in (1..n) \ window : 100 * base_load[t] > ceiling
        THEN {}
        ELSE { [t \in 1..n |-> IF t \in window THEN y[t] ELSE 0] :
                 y \in { z \in [window -> 0..fleet_kw] :
                           /\ lp_energy_constraint(SumAt(z, order, Len(order)),
                                                   kwh_needed)
                           /\ \A t \in window :
                                 100 * (base_load[t] + z[t]) <= ceiling } }

\* lines 205-211: the coefficient of x[t] in energy_obj, spot[t] / 100 + fee
energy_price(t, spot, tariff, timestamps) ==
    spot[t] + (IF is_peak_hour(tariff, timestamps[t])
               THEN tariff.energy_fee_peak
               ELSE tariff.energy_fee_offpeak)

\* lines 201-213: the objective at x with M and P at their least values, in
\* 1/10000 kr per grid unit.  price[t] is the coefficient of x[t].  x is 0
\* outside the window, so the energy term is summed over the hours of the
\* window (charged) and the two maxima start from the largest base load of
\* the other hours (rest_all) and of the other peak hours (rest_peak);
\* charged_peak lists the peak hours of the window.
lp_objective(x, base_load, price, charged, charged_peak, rest_all, rest_peak, tariff) ==
    LET cost  == [t \in DOMAIN x |-> x[t] * price[t]]
        total == [t \in DOMAIN x |-> base_load[t] + x[t]]
    IN  SumAt(cost, charged, Len(charged))
        + MaxAt(total, charged, Len(charged), rest_all) * tariff.capacity_fee_kw
        + MaxAt(total, charged_peak, Len(charged_peak), rest_peak) * tariff.peak_fee_kw

\* line 216-218: what prob.solve ends in.  "Optimal" comes with a minimiser of
\* the objective over the feasible set; "Infeasible" when that set is empty;
\* "Not Solved" when the time limit ends the solver first.
lp_solve(n, base_load, fleet_kw, kwh_needed, window, spot, tariff, subscription_kw, safety_margin, timestamps) ==
    LET feasible == lp_feasible(n, base_load, fleet_kw, kwh_needed, window,
                                subscription_kw, safety_margin)
        none     == [t \in 1..n |-> 0]
        peak     == {t \in 1..n : is_peak_hour(tariff, timestamps[t])}
        price    == [t \in 1..n |-> energy_price(t, spot, tariff, timestamps)]
        charged      == Sorted(window)
        charged_peak == Sorted(window \cap peak)
        rest         == Sorted((1..n) \ window)
        rest_in_peak == Sorted(peak \ window)
        rest_all     == MaxAt(base_load, rest, Len(rest), 0)
        rest_peak    == MaxAt(base_load, rest_in_peak, Len(rest_in_peak), 0)
    IN  IF feasible = {}
        THEN {[status |-> "Infeasible", x |-> none]}
        ELSE LET value == [x \in feasible |->
                             lp_objective(x, base_load, price, charged, charged_peak,
                                          rest_all, rest_peak, tariff)]
                 best  == SetMin({value[x] : x \in feasible})
             IN  {[status |-> "Optimal", x |-> x] :
                     x \in {z \in feasible : value[z] = best}}
                 \cup {[status |-> "Not Solved", x |-> none]}

\* the values of the solver returned whatever its status
lp_ev_schedule_solver_values(outcome, n, fleet_kw, kwh_needed, arrival_hour, departure_hour, spot, timestamps) ==
    outcome.x

\* lines 219-230: the schedule returned for an outcome of the solver
lp_ev_schedule(outcome, n, fleet_kw, kwh_needed, arrival_hour, departure_hour, spot, timestamps) ==
    IF outcome.status # "Optimal"
    THEN naive_ev_schedule(n, fleet_kw, kwh_needed, arrival_hour,
                           departure_hour, spot, timestamps)
    ELSE outcome.x

-----------------------------------------------------------------------------
(* Inputs of the simulation *)

\* An optional series of the request: present is FALSE for None
NoSeries == [present |-> FALSE, values |-> <<>>]

Series(values) == [present |-> TRUE, values |-> values]

\* Property: subscription_kw in grid units
Properties ==
    {[id |-> "p1", grid_area |-> "SE3", subscription_kw |-> 120]}

\* Fleet: charger_kw and battery_kwh in grid units, avg_soc_on_arrival in
\* percent; the windows are a morning window across the start of the peak
\* hours, a window across midnight and an empty window
Fleets ==
    {[vehicle_count |-> f[1], charger_kw |-> f[2], battery_kwh |-> f[3],
      avg_soc_on_arrival |-> f[4],
      avg_arrival_hour |-> w[1], avg_departure_hour |-> w[2]] :
        f \in {<<2, 3, 8, 25>>, <<1, 6, 40, 25>>, <<1, 6, 8, 100>>},
        w \in {<<5, 7>>, <<23, 1>>, <<5, 5>>}}

\* GridTariff: the tariff of the end-to-end scenarios, the same tariff billed
\* on the mean of the three highest hours, and a tariff without fees
Tariffs ==
    {[capacity_fee_kw |-> 590000, peak_fee_kw |-> 700000,
      peak_hours_start |-> 6, peak_hours_end |-> 22,
      peak_months |-> {11, 12, 1, 2, 3}, peak_weekdays_only |-> TRUE,
      energy_fee_peak |-> 710, energy_fee_offpeak |-> 380,
      base_monthly_fee |-> 36500, peak_calc_method |-> "single"],
     [capacity_fee_kw |-> 590000, peak_fee_kw |-> 700000,
      peak_hours_start |-> 6, peak_hours_end |-> 22,
      peak_months |-> {11, 12, 1, 2, 3}, peak_weekdays_only |-> TRUE,
      energy_fee_peak |-> 710, energy_fee_offpeak |-> 380,
      base_monthly_fee |-> 36500, peak_calc_method |-> "avg3"],
     [capacity_fee_kw |-> 0, peak_fee_kw |-> 0,
      peak_hours_start |-> 0, peak_hours_end |-> 0,
      peak_months |-> {}, peak_weekdays_only |-> FALSE,
      energy_fee_peak |-> 0, energy_fee_offpeak |-> 0,
      base_monthly_fee |-> 0, peak_calc_method |-> "single"]}

\* base_load_profile for a grid of n hours: None, an empty list, a list of 24
\* entries per calendar day of the period, a flat load, a load that leaves 12 or 6 units below the
\* subscription, and a load that leaves 6 or none
BaseLoadProfiles(n) ==
    {NoSeries,
     Series(<<>>),
     Series([i \in 1..(n + 23) |-> 60]),
     Series([i \in 1..n |-> 60]),
     Series([i \in 1..n |-> IF i % 2 = 1 THEN 108 ELSE 114]),
     Series([i \in 1..n |-> IF i % 2 = 1 THEN 114 ELSE 120])}

SpotEntry(period_start, i, price) ==
    [timestamp |-> 24 * period_start + (i - 1), price_ore_kwh |-> price]

\* spot_prices for a grid of n hours: None, an empty list, the 24 entries per
\* calendar day of the price source, rising prices and falling prices
SpotPriceSeries(period_start, period_end, n) ==
    {NoSeries,
     Series(<<>>),
     Series([i \in 1..(24 * (period_end - period_start + 1)) |->
                SpotEntry(period_start, i, 4592 + 112 * (i - 1))]),
     Series([i \in 1..n |-> SpotEntry(period_start, i, 4592 + 112 * (i - 1))]),
     Series([i \in 1..n |-> SpotEntry(period_start, i, 12000 - 112 * (i - 1))])}

\* SimulationInput for the period from period_start to period_end
RequestsFor(period_start, period_end) ==
    LET n == 24 * (period_end - period_start) + 1
    IN  {[property |-> p, fleet |-> f, tariff |-> t,
          period_start |-> period_start, period_end |-> period_end,
          base_load_profile |-> b, spot_prices |-> s] :
            p \in Properties, f \in Fleets, t \in Tariffs,
            b \in BaseLoadProfiles(n),
            s \in SpotPriceSeries(period_start, period_end, n)}

\* period_end - period_start in days: a grid of one hour, and one of 25 hours
PeriodDays == {0, 1}

\* the requests of the model
Requests ==
    UNION {RequestsFor(d, d + k) : d \in Days, k \in PeriodDays}

\* a variate of _typkurva_baslast for hour h of the day that gives a whole
\* number of grid units for a subscription of 120 units: the low one gives 30,
\* 15 and 5 percent of the subscription (day, shoulder, night), the high one
\* 55, 25 and 10 percent
BaseloadVariate(h, high) ==
    IF 8 <= h /\ h < 18 THEN (IF high THEN DrawScale ELSE 0)
    ELSE IF (6 <= h /\ h < 8) \/ (18 <= h /\ h < 22)
         THEN (IF high THEN 8125 ELSE 1875)
    ELSE (IF high THEN 7500 ELSE 1250)

\* the variates of _typkurva_baslast for a grid of n hours, one per hour: low
\* in every hour, high in every hour, low and high in turn
BaseloadDraws(n) ==
    {[i \in 1..n |-> BaseloadVariate((i - 1) % 24, FALSE)],
     [i \in 1..n |-> BaseloadVariate((i - 1) % 24, TRUE)],
     [i \in 1..n |-> BaseloadVariate((i - 1) % 24, i % 2 = 0)]}

\* the variates of _syntetiska_spotpriser for a grid of n hours, one per hour:
\* the low end of the range in every hour, the high end in every hour, the
\* two in turn
SpotDraws(n) ==
    {[i \in 1..n |-> 0],
     [i \in 1..n |-> DrawScale],
     [i \in 1..n |-> IF i % 2 = 0 THEN DrawScale ELSE 0]}

NoRequest ==
    [property |-> [id |-> "", grid_area |-> "", subscription_kw |-> 0],
     period_start |-> 0, period_end |-> 0]

NoLpRun == [status |-> "none"]

NoResult == [data_quality |-> "none", hourly_data |-> <<>>]

NoMcRun == [trials |-> 0, lp_calls |-> {}, savings |-> {}]

-----------------------------------------------------------------------------
(* cost_model                                                              *)
(*                                                                         *)
(* Powers are in thousandths of a kW, fees per kW and per kWh in 0.0001 kr, *)
(* base_monthly_fee in ore.  A product of a power and a fee is an amount   *)
(* in units of 0.0000001 kr, held exactly as hi ore + lo units, so that no *)
(* product leaves the range of the integers.  Reported amounts are in ore. *)
(*                                                                         *)
(* The code rounds floats.  A rounded value is the nearest one; where the  *)
(* exact value lies midway between two neighbours (an odd multiple of      *)
(* 0.005 or 0.0005) the float that was computed lies at, just above or     *)
(* just below it and round() follows the float, so the operators that      *)
(* round give the set of the values the call can return: one value, or     *)
(* both neighbours.                                                        *)
(* The same floats round the same way in one run.                          *)

\* units of an amount in one ore
MoneyScale == 100 * 1000

\* round(num / den) for den > 0 where the quotient is a float without error
\* (a whole number of halves): an exact tie goes to the even integer
RoundDiv(num, den) ==
    LET q == num \div den
        r == num % den
    IN  IF 2 * r < den THEN q
        ELSE IF 2 * r > den THEN q + 1
        ELSE IF q % 2 = 0 THEN q ELSE q + 1

\* the product a * m as an amount, for a >= 0
Amount(a, m) ==
    LET t1 == (a \div 1000) * m
        t2 == (a % 1000) * m
        lo == (t1 % 100) * 1000 + (t2 % MoneyScale)
    IN  [hi |-> (t1 \div 100) + (t2 \div MoneyScale) + (lo \div MoneyScale),
         lo |-> lo % MoneyScale]

AddAmount(x, y) ==
    [hi |-> x.hi + y.hi + ((x.lo + y.lo) \div MoneyScale),
     lo |-> (x.lo + y.lo) % MoneyScale]

\* round(num / den, .) of a float quotient, den > 0: the values it can give
RoundFloatDiv(num, den) ==
    LET q == num \div den
        r == num % den
    IN  IF 2 * r < den THEN {q}
        ELSE IF 2 * r > den THEN {q + 1}
        ELSE {q, q + 1}

\* round(x, 2) of an amount, in ore: the values it can give
RoundAmount(x) ==
    IF 2 * x.lo < MoneyScale THEN {x.hi}
    ELSE IF 2 * x.lo > MoneyScale THEN {x.hi + 1}
    ELSE {x.hi, x.hi + 1}

RECURSIVE TopSum(_, _, _)
\* sum(sorted(values, reverse=True)[:k]) of the values at the indices in S
TopSum(values, S, k) ==
    IF k = 0 \/ S = {} THEN 0
    ELSE LET i == CHOOSE i \in S : \A j \in S : values[j] <= values[i]
         IN  values[i] + TopSum(values, S \ {i}, k - 1)

RECURSIVE TopValues(_, _, _)
\* sorted(values, reverse=True)[:k] of the values at the indices in S
TopValues(values, S, k) ==
    IF k = 0 \/ S = {} THEN <<>>
    ELSE LET i == CHOOSE i \in S : \A j \in S : values[j] <= values[i]
         IN  <<values[i]>> \o TopValues(values, S \ {i}, k - 1)

\* top_avg with the window of the mean ignored: the plain maximum
top_avg_single(values, S, n) ==
    IF S = {} THEN {0} ELSE {TopSum(values, S, 1) * KwUnit}

\* lines 12-15: top_avg of the values (grid units) at the indices in S,
\* in thousandths of a kW as round(., 3) of line 26 can leave it
top_avg(values, S, n) ==
    IF S = {} THEN {0}
    ELSE LET k == Min(n, Cardinality(S))
         IN  RoundFloatDiv(TopSum(values, S, k) * KwUnit, k)

\* lines 6-26: calc_peak_power, hourly_kw in grid units: the dicts it can
\* return.  When the same values are averaged for both powers, both are the
\* same float.
calc_peak_power(hourly_kw, tariff, timestamps) ==
    LET all_kw == DOMAIN hourly_kw
        peak_kw == {i \in DOMAIN hourly_kw \cap DOMAIN timestamps :
                       is_peak_hour(tariff, timestamps[i])}
        method == tariff.peak_calc_method
        TopAvgs(n) ==
            {[p_max_all |-> a, p_max_peak |-> p] :
                a \in top_avg(hourly_kw, all_kw, n),
                p \in top_avg(hourly_kw, peak_kw, n)}
        Peaks(n) ==
            IF TopValues(hourly_kw, peak_kw, n) = TopValues(hourly_kw, all_kw, n)
            THEN {pk \in TopAvgs(n) : pk.p_max_all = pk.p_max_peak}
            ELSE TopAvgs(n)
    IN  IF method = "avg3" THEN Peaks(3)
        ELSE IF method = "avg5" THEN Peaks(5)
        ELSE {[p_max_all  |-> IF all_kw = {} THEN 0
                              ELSE TopSum(hourly_kw, all_kw, 1) * KwUnit,
               p_max_peak |-> IF peak_kw = {} THEN 0
                              ELSE TopSum(hourly_kw, peak_kw, 1) * KwUnit]}

RECURSIVE EnergyLoop(_, _, _, _, _)
\* lines 31-34: the loop of calc_energy_cost over the first k hours
EnergyLoop(hourly_kw, spot_prices, tariff, timestamps, k) ==
    IF k = 0 THEN [hi |-> 0, lo |-> 0]
    ELSE LET grid_fee == IF is_peak_hour(tariff, timestamps[k])
                         THEN tariff.energy_fee_peak
                         ELSE tariff.energy_fee_offpeak
         IN  AddAmount(EnergyLoop(hourly_kw, spot_prices, tariff, timestamps, k - 1),
                       Amount(hourly_kw[k] * KwUnit, spot_prices[k] + grid_fee))

\* lines 29-35: calc_energy_cost, in ore: the values it can return
calc_energy_cost(hourly_kw, spot_prices, tariff, timestamps) ==
    RoundAmount(EnergyLoop(hourly_kw, spot_prices, tariff, timestamps,
                    Min(Len(hourly_kw), Min(Len(spot_prices), Len(timestamps)))))

\* lines 38-54: calc_total_cost: the dicts it can return; the same power
\* times the same fee is the same float
calc_total_cost(hourly_kw, spot_prices, tariff, timestamps, months) ==
    LET base_fee == tariff.base_monthly_fee * months
        Costs(peaks, energy_cost) ==
            LET capacity_cost == Amount(peaks.p_max_all, tariff.capacity_fee_kw)
                peak_cost == Amount(peaks.p_max_peak, tariff.peak_fee_kw)
                same == /\ peaks.p_max_peak = peaks.p_max_all
                        /\ tariff.peak_fee_kw = tariff.capacity_fee_kw
            IN  {[energy_cost   |-> energy_cost,
                  capacity_cost |-> c,
                  peak_cost     |-> IF same THEN c ELSE p,
                  base_fee      |-> base_fee,
                  total         |-> t,
                  p_max_all     |-> peaks.p_max_all,
                  p_max_peak    |-> peaks.p_max_peak] :
                    c \in RoundAmount(capacity_cost),
                    p \in RoundAmount(peak_cost),
                    t \in RoundAmount(
                            AddAmount([hi |-> energy_cost + base_fee, lo |-> 0],
                                      AddAmount(capacity_cost, peak_cost)))}
    IN  UNION {Costs(peaks, energy_cost) :
                  peaks \in calc_peak_power(hourly_kw, tariff, timestamps),
                  energy_cost \in calc_energy_cost(hourly_kw, spot_prices,
                                                   tariff, timestamps)}

\* optimizer.py line 299: months
months_of(period_start, period_end) ==
    Max(1, RoundDiv(period_end - period_start, 30))

-----------------------------------------------------------------------------
(* optimizer.run_simulation *)

\* lines 303 and 318: the series is given, not empty and of length n
Supplied(series, n) ==
    series.present /\ series.values # <<>> /\ Len(series.values) = n

\* the class decided by the price series alone
data_quality_spot_only(using_real_spot, using_real_baseload) ==
    IF using_real_spot THEN "ok" ELSE "fallback"

\* lines 330-338: data_quality
data_quality_of(using_real_spot, using_real_baseload) ==
    IF using_real_spot /\ using_real_baseload THEN "ok"
    ELSE IF using_real_spot \/ using_real_baseload THEN "partial"
    ELSE "fallback"

\* lines 330-339: safety_margin, in percent
safety_margin_of(using_real_spot, using_real_baseload) ==
    IF using_real_spot /\ using_real_baseload THEN 0
    ELSE IF using_real_spot \/ using_real_baseload THEN 5
    ELSE 10

\* the entry alone
save_last_known_good_only(cache, property_id, ev_lp, spot, saved_at) ==
    [k \in {property_id} |->
        [saved_at |-> saved_at, ev_schedule |-> ev_lp, spot_prices |-> spot]]

\* lines 48-53
save_last_known_good(cache, property_id, ev_lp, spot, saved_at) ==
    [k \in DOMAIN cache \cup {property_id} |->
        IF k = property_id
        THEN [saved_at |-> saved_at, ev_schedule |-> ev_lp, spot_prices |-> spot]
        ELSE cache[k]]

\* lines 398-410: one HourlyResult
HourlyResult(tariff, dt, base, ev_naive, ev_lp, spot) ==
    [timestamp        |-> dt,
     base_kw          |-> Round2Kw(base),
     ev_kw_without    |-> Round2Kw(ev_naive),
     ev_kw_with       |-> Round2Kw(ev_lp),
     total_kw_without |-> Round2Kw(base + ev_naive),
     total_kw_with    |-> Round2Kw(base + ev_lp),
     spot_price       |-> spot,
     is_peak_hour     |-> is_peak_hour(tariff, dt)]

\* the series whose values are all whole multiples of unit, in that unit
InUnitsOf(curves, unit) ==
    {[i \in DOMAIN c |-> c[i] \div unit] :
        c \in {x \in curves : \A i \in DOMAIN x : x[i] % unit = 0}}

\* lines 302-312: the base load of the run in grid units; the synthetic curve
\* is one of those the draws can give
BaseLoads(request) ==
    LET n == Len(Timestamps(request.period_start, request.period_end))
    IN  IF Supplied(request.base_load_profile, n)
        THEN {request.base_load_profile.values}
        ELSE InUnitsOf({typkurva_baslast(n, request.property.subscription_kw, r) :
                           r \in BaseloadDraws(n)},
                       100 * DrawScale)

\* lines 317-327: the prices of the run in hundredths of an ore/kWh
SpotPrices(request) ==
    LET n == Len(Timestamps(request.period_start, request.period_end))
    IN  IF Supplied(request.spot_prices, n)
        THEN {[i \in 1..n |-> request.spot_prices.values[i].price_ore_kwh]}
        ELSE InUnitsOf({syntetiska_spotpriser(n, r) : r \in SpotDraws(n)},
                       DrawScale \div 100)

\* line 386: n_sim of the call of _monte_carlo_savings
n_sim == 200

\* lines 256-259, the draws of a trial: np.random.randint(-1, 2) added to the
\* arrival and to the departure hour, np.random.uniform(0.85, 1.15) of
\* kwh_needed and np.random.uniform(0.90, 1.10) of base_load, in percent.
\* The energies of the fleets stay on the grid of the solver under no factor
\* of the interval but 1
McDraws ==
    <<[arrival |-> -1, departure |-> -1, kwh |-> 100, base |-> 100],
      [arrival |-> 0, departure |-> -1, kwh |-> 100, base |-> 90],
      [arrival |-> -1, departure |-> 0, kwh |-> 100, base |-> 110]>>

\* the jittered problem of the draw lies on the grid of the solver as modelled:
\* the energy and the base load are multiples of six units and the window has
\* at most three hours, or no more than the window of the primary run
OnGrid(draw, base_load, args) ==
    /\ (args.kwh_needed * draw.kwh) % 600 = 0
    /\ \A i \in DOMAIN base_load : (base_load[i] * draw.base) % 600 = 0
    /\ Cardinality(Window(args.timestamps, args.arrival_hour + draw.arrival,
                          args.departure_hour + draw.departure))
          <= Max(3, Cardinality(Window(args.timestamps, args.arrival_hour,
                                       args.departure_hour)))

\* the draws of the trials of a phase, taken in turn: those of McDraws whose
\* problem lies on the grid
DrawsOf(base_load, args) ==
    SelectSeq(McDraws, LAMBDA draw : OnGrid(draw, base_load, args))

\* base_load *= u: the array of the caller is jittered where it is
jitter_in_place(objects, u) ==
    LET base_j == [i \in DOMAIN objects.base_load |->
                      (objects.base_load[i] * u) \div 100]
    IN  [objects |-> [objects EXCEPT !.base_load = base_j], base_j |-> base_j]

\* line 259: base_j = base_load * u.  The product of an array and a number is
\* a new array, bound to the local name base_j; base_load is read
jitter(objects, u) ==
    [objects |-> objects,
     base_j |-> [i \in DOMAIN objects.base_load |->
                    (objects.base_load[i] * u) \div 100]]

\* lines 256-258 and 261-270, the calls of one trial after base_j is built:
\* arr_j, dep_j and kwh_j are locals, the two schedulers read base_j and spot
\* and build the arrays they return, tolist() copies.  The value holds the
\* arguments of the call of _lp_ev_schedule and the savings the trial can
\* append (one per outcome of the solver and rounding of the costs)
mc_calls(base_j, spot, draw, args) ==
    LET n        == Len(args.timestamps)
        arr_j    == args.arrival_hour + draw.arrival
        dep_j    == args.departure_hour + draw.departure
        kwh_j    == (args.kwh_needed * draw.kwh) \div 100
        ev_naive == naive_ev_schedule(n, args.fleet_kw, kwh_j, arr_j, dep_j,
                                      spot, args.timestamps)
        outcomes == lp_solve(n, base_j, args.fleet_kw, kwh_j,
                             Window(args.timestamps, arr_j, dep_j), spot,
                             args.tariff, args.subscription_kw,
                             args.safety_margin, args.timestamps)
        total_naive == [i \in 1..n |-> base_j[i] + ev_naive[i]]
        c_naive  == calc_total_cost(total_naive, spot, args.tariff,
                                    args.timestamps, 1)
        Savings(outcome) ==
            LET ev_lp == lp_ev_schedule(outcome, n, args.fleet_kw, kwh_j, arr_j,
                                        dep_j, spot, args.timestamps)
                total_lp == [i \in 1..n |-> base_j[i] + ev_lp[i]]
            IN  IF total_lp = total_naive THEN {0}
                ELSE {a.total - b.total :
                         a \in c_naive,
                         b \in calc_total_cost(total_lp, spot, args.tariff,
                                               args.timestamps, 1)}
    IN  [lp_call |-> [base_load |-> base_j, kwh_needed |-> kwh_j,
                      arrival_hour |-> arr_j, departure_hour |-> dep_j,
                      spot |-> spot, safety_margin |-> args.safety_margin],
         savings |-> UNION {Savings(outcome) : outcome \in outcomes}]

\* the phase before its first trial
McStart(objects) ==
    [objects |-> objects, trials |-> 0, lp_calls |-> {}, savings |-> {}]

\* line 270: savings.append; the phase after a trial that left objects and
\* made calls
McAppend(phase, objects, calls) ==
    [objects  |-> objects,
     trials   |-> phase.trials + 1,
     lp_calls |-> phase.lp_calls \cup {calls.lp_call},
     savings  |-> phase.savings \cup calls.savings]

\* lines 256-258 and 261-270 of a trial, after base_j is built
McAfterJitter(phase, jittered, draw, args) ==
    McAppend(phase, jittered.objects,
             mc_calls(jittered.base_j, jittered.objects.spot, draw, args))

\* lines 256-270, one trial on the objects the phase shares with its caller,
\* the arrays base_load and spot it was passed; its draw is the next of draws
\* in turn.  No statement of the body assigns to an element of base_load or
\* of spot
mc_trial(phase, draws, args) ==
    LET draw == draws[(phase.trials % Len(draws)) + 1]
    IN  McAfterJitter(phase, jitter(phase.objects, draw.base), draw, args)

RECURSIVE McTrials(_, _, _, _)
\* k trials one after the other
McTrials(phase, draws, args, k) ==
    IF k = 0 \/ DOMAIN phase = {} THEN phase
    ELSE McTrials(mc_trial(phase, draws, args), draws, args, k - 1)

RECURSIVE McLoop(_, _, _, _)
\* the loop after a round that took phase to round, with left trials to go.
\* A whole round that leaves the shared objects as it found them is repeated
\* as it is by every later whole round (the same draws on the same objects:
\* the same calls, the same savings), which is then only counted
McAfterRound(phase, round, draws, args, left) ==
    LET repeats == /\ round.trials - phase.trials = Len(draws)
                   /\ round.objects = phase.objects
        whole   == left - (left % Len(draws))
    IN  McLoop(IF repeats THEN [round EXCEPT !.trials = @ + whole] ELSE round,
               draws, args, IF repeats THEN left - whole ELSE left)

\* lines 255-270: for _ in range(n_sim), taken a round at a time; a round
\* goes through the draws once, the last one through those that are left
McLoop(phase, draws, args, k) ==
    IF k = 0 \/ DOMAIN phase = {} THEN phase
    ELSE McAfterRound(phase,
                      McTrials(phase, draws, args, Min(k, Len(draws))),
                      draws, args, k - Min(k, Len(draws)))

\* lines 272-280: what the phase hands back.  objects are the shared objects
\* after the trials, mc is the returned dict, of which only n_simulations is
\* kept (the statistics of the savings are not computed), run records the
\* trials
McReturn(phase, n) ==
    [objects |-> phase.objects,
     mc |-> [n_simulations |-> n],
     run |-> [trials |-> phase.trials, lp_calls |-> phase.lp_calls,
              savings |-> phase.savings]]

\* lines 235-280: _monte_carlo_savings on the objects it shares with its
\* caller, the arrays base_load and spot; args holds the other arguments.
\* The module's _last_known_good is named by no statement of the function
\* and of those it calls, and the schedules of the primary run are not
\* passed to it
monte_carlo_savings(objects, args, n) ==
    McReturn(McLoop(McStart(objects), DrawsOf(objects.base_load, args), args, n),
             n)

\* lines 285-441: run_simulation(request) with the cache of last known good
\* schedules as it is at the call; the synthetic series and the outcome of
\* the solver are chosen by the environment and a cost midway between two
\* rounded values rounds either way (the same loads give the same cost), so
\* the value is the set of the possible [lp_run, result, last_known_good,
\* mc_run]; the Monte Carlo phase runs on the arrays base_load and spot of the
\* run, whatever the solver returned for the primary schedule (phase is the
\* same for every outcome), and the hourly data are built after it;
\* kwh_needed is a whole number of grid units for every fleet of the model
run_simulation(request, cache, clock) ==
    LET timestamps == Timestamps(request.period_start, request.period_end)
        n          == Len(timestamps)
        months     == months_of(request.period_start, request.period_end)
        using_real_baseload == Supplied(request.base_load_profile, n)
        using_real_spot     == Supplied(request.spot_prices, n)
        data_quality  == data_quality_of(using_real_spot, using_real_baseload)
        safety_margin == safety_margin_of(using_real_spot, using_real_baseload)
        fleet      == request.fleet
        kwh_needed == (fleet.vehicle_count * fleet.battery_kwh
                         * (100 - fleet.avg_soc_on_arrival)) \div 100
        fleet_kw   == fleet.vehicle_count * fleet.charger_kw
        window     == Window(timestamps, fleet.avg_arrival_hour,
                             fleet.avg_departure_hour)
        mc_args    == [tariff |-> request.tariff, fleet_kw |-> fleet_kw,
                       kwh_needed |-> kwh_needed,
                       arrival_hour |-> fleet.avg_arrival_hour,
                       departure_hour |-> fleet.avg_departure_hour,
                       subscription_kw |-> request.property.subscription_kw,
                       timestamps |-> timestamps,
                       safety_margin |-> safety_margin]
        Run(base_load, spot, outcome, phase) ==
            LET ev_naive == naive_ev_schedule(n, fleet_kw, kwh_needed,
                                fleet.avg_arrival_hour, fleet.avg_departure_hour,
                                spot, timestamps)
                ev_lp == lp_ev_schedule(outcome, n, fleet_kw, kwh_needed,
                             fleet.avg_arrival_hour, fleet.avg_departure_hour,
                             spot, timestamps)
                saved == IF data_quality = "ok"
                         THEN save_last_known_good(cache, request.property.id,
                                                   ev_lp, spot, clock)
                         ELSE cache
                total_naive == [i \in 1..n |-> base_load[i] + ev_naive[i]]
                total_lp    == [i \in 1..n |-> base_load[i] + ev_lp[i]]
                after == phase.objects
                Result(cost_naive, cost_lp) ==
                [lp_run |-> [status |-> outcome.status,
                             safety_margin |-> safety_margin,
                             fleet_kw |-> fleet_kw,
                             kwh_needed |-> kwh_needed,
                             base_load |-> base_load,
                             spot |-> spot,
                             using_real_spot |-> using_real_spot,
                             returned |-> ev_lp],
                 last_known_good |-> saved,
                 mc_run |-> phase.run,
                 result |-> [data_quality |-> data_quality,
                             cost_without_derivatio |-> cost_naive.total,
                             cost_with_derivatio |-> cost_lp.total,
                             savings_total |-> cost_naive.total - cost_lp.total,
                             peak_kw_without |-> cost_naive.p_max_all,
                             peak_kw_with |-> cost_lp.p_max_all,
                             monte_carlo |-> phase.mc,
                             breakdown |->
                               [spot_cost_without |-> cost_naive.energy_cost,
                                spot_cost_with |-> cost_lp.energy_cost,
                                capacity_cost_without |-> cost_naive.capacity_cost,
                                capacity_cost_with |-> cost_lp.capacity_cost,
                                peak_cost_without |-> cost_naive.peak_cost,
                                peak_cost_with |-> cost_lp.peak_cost,
                                base_monthly_fee |-> cost_naive.base_fee],
                             hourly_data |->
                               [i \in 1..n |->
                                   HourlyResult(request.tariff, timestamps[i],
                                                after.base_load[i],
                                                ev_naive[i], ev_lp[i],
                                                after.spot[i])]]]
            IN  UNION {{Result(cost_naive, cost_lp) :
                           cost_lp \in IF total_lp = total_naive THEN {cost_naive}
                                       ELSE calc_total_cost(total_lp, spot,
                                                request.tariff, timestamps, months)} :
                       cost_naive \in calc_total_cost(total_naive, spot,
                                          request.tariff, timestamps, months)}
        Runs(base_load, spot) ==
            LET phase == monte_carlo_savings(
                             [base_load |-> base_load, spot |-> spot],
                             mc_args, n_sim)
            IN  UNION {Run(base_load, spot, outcome, phase) :
                          outcome \in lp_solve(n, base_load, fleet_kw,
                                               kwh_needed, window, spot,
                                               request.tariff,
                                               request.property.subscription_kw,
                                               safety_margin, timestamps)}
    IN  UNION {Runs(base_load, spot) :
               <<base_load, spot>> \in BaseLoads(request) \X SpotPrices(request)}

\* a direct call of run_simulation(inp)
RunSimulation ==
    /\ sim_pc = "pending"
    /\ \E run \in run_simulation(inp, last_known_good, now) :
          /\ lp_run' = run.lp_run
          /\ result' = run.result
          /\ last_known_good' = run.last_known_good
          /\ mc_run' = run.mc_run
    /\ sim_pc' = "done"
    /\ UNCHANGED <<inp, now, simulations>>
    /\ UNCHANGED fetch_vars
    /\ UNCHANGED fn_vars

-----------------------------------------------------------------------------
(* The price source as a state machine *)

\* the module just imported: empty caches, no call in flight
InitFetch ==
    /\ price_cache = <<>>
    /\ pc = [p \in Callers |-> "idle"]
    /\ cur = [p \in Callers |-> NoArgs]
    /\ http_calls = 0
    /\ ncalls = 0
    /\ last = NoCall

\* no simulation requested
SimIdle ==
    /\ sim_pc = "idle"
    /\ inp = NoRequest
    /\ lp_run = NoLpRun
    /\ result = NoResult
    /\ last_known_good = <<>>
    /\ now = 0
    /\ simulations = <<>>
    /\ mc_run = NoMcRun

NoFnCall == [fn |-> "none"]

NoFnRet == [returned |-> FALSE]

\* no function called on its own
FnIdle ==
    /\ fn_call = NoFnCall
    /\ fn_ret = NoFnRet

Init == InitFetch /\ SimIdle /\ FnIdle

\* A request calls fetch_day_ahead_prices
Start(p) ==
    /\ pc[p] = "idle"
    /\ ncalls < MaxCalls
    /\ \E a \in Areas, s \in Days, e \in Days, t \in Tokens :
          Begin(p, [id |-> ncalls + 1, grid_area |-> a, start |-> s, end |-> e,
                    entsoe_api_token |-> t])
    /\ UNCHANGED sim_vars
    /\ UNCHANGED fn_vars

\* The awaited HTTP call of caller p ends
Respond(p) ==
    /\ pc[p] = "awaiting"
    /\ \E resp \in Responses : Resume(p, resp)
    /\ UNCHANGED sim_vars
    /\ UNCHANGED fn_vars

\* Calls made one after the other: a call starts when no other is in flight
StartAlone(p) ==
    /\ \A q \in Callers : pc[q] = "idle"
    /\ Start(p)

\* clear_price_cache() is called (tests, manual invalidation): it does not
\* suspend, so it runs between the steps of the calls in flight
ClearPriceCache ==
    /\ price_cache' = clear_price_cache(price_cache)
    /\ UNCHANGED <<pc, cur, http_calls, ncalls, last>>
    /\ UNCHANGED sim_vars
    /\ UNCHANGED fn_vars

\* Sequential use: one caller, each call completes before the next starts
Next == StartAlone(1) \/ Respond(1) \/ ClearPriceCache

Spec == Init /\ [][Next]_vars

\* Concurrent use: independent requests interleave at the awaited HTTP call
NextConcurrent == (\E p \in Callers : Start(p) \/ Respond(p)) \/ ClearPriceCache

SpecConcurrent == Init /\ [][NextConcurrent]_vars

-----------------------------------------------------------------------------
(* The simulation as a state machine *)

\* a simulation request has been received by run_simulation
InitSim ==
    /\ InitFetch
    /\ sim_pc = "pending"
    /\ inp \in Requests
    /\ lp_run = NoLpRun
    /\ result = NoResult
    /\ last_known_good = <<>>
    /\ now = 0
    /\ simulations = <<>>
    /\ mc_run = NoMcRun
    /\ FnIdle

NextSim == RunSimulation

SpecSim == InitSim /\ [][NextSim]_vars

-----------------------------------------------------------------------------
(* Functions called on their own, as the unit tests call them *)

\* _fallback_prices(start, end): the periods within the days of the model,
\* and January 2025
FallbackCalls ==
    {[fn |-> "_fallback_prices", start |-> d[1], end |-> d[2]] :
        d \in (Days \X Days) \cup {<<0, 30>>}}

\* prices of the entries given to _validate_and_clamp, in hundredths of an
\* ore/kWh: negative, zero, ordinary, at the upper limit of the log and above
ClampPrices == {-1500, -1, 0, 4532, PRICE_MAX_ORE, PRICE_MAX_ORE + 1, 90000}

ClampEntries == [timestamp : {3, 8}, price_ore_kwh : ClampPrices]

\* _validate_and_clamp(prices): the lists of at most two entries, timestamps
\* in any order
ClampCalls ==
    {[fn |-> "_validate_and_clamp", prices |-> l] :
        l \in {<<>>} \cup {<<e>> : e \in ClampEntries}
               \cup {<<e[1], e[2]>> : e \in ClampEntries \X ClampEntries}}

\* GridTariff for is_peak_hour: the hours, months and days that count
PeakTariffs ==
    [peak_hours_start : {0, 6, 22}, peak_hours_end : {0, 6, 22, 24},
     peak_months : {{}, {11, 12, 1, 2, 3}, {7}},
     peak_weekdays_only : BOOLEAN]

\* days since 2025-01-01: Wed 1 Jan, Fri 3 Jan, Sat 4 Jan, Sun 5 Jan, Mon 6 Jan,
\* Sat 1 Mar, Tue 1 Apr, Tue 1 Jul, Sun 6 Jul, Sat 1 Nov, Wed 31 Dec
PeakDays == {0, 2, 3, 4, 5, 59, 90, 181, 186, 304, 364}

PeakHours == {0, 5, 6, 12, 21, 22, 23}

\* tariff.is_peak_hour(dt)
IsPeakCalls ==
    {[fn |-> "is_peak_hour", tariff |-> t, dt |-> 24 * d + h] :
        t \in PeakTariffs, d \in PeakDays, h \in PeakHours}

\* hourly loads in grid units: every list of at most three of three values,
\* and longer lists with repeated and distinct values
HourlyLoads ==
    {<<>>} \cup {<<a>> : a \in {7, 61, 126}}
    \cup {<<a, b>> : a \in {7, 61, 126}, b \in {7, 61, 126}}
    \cup {<<a, b, c>> : a \in {7, 61, 126}, b \in {7, 61, 126}, c \in {7, 61, 126}}
    \cup {<<61, 66, 7, 126, 61, 93>>, <<11, 23, 31, 47, 53, 67, 71>>,
          <<71, 71, 71, 71, 8, 71, 70>>}

\* the tariff of the end-to-end scenarios with each peak_calc_method, and
\* the same without peak months
CostTariffs ==
    {[capacity_fee_kw |-> 590000, peak_fee_kw |-> 700000,
      peak_hours_start |-> 6, peak_hours_end |-> 22,
      peak_months |-> m, peak_weekdays_only |-> TRUE,
      energy_fee_peak |-> 710, energy_fee_offpeak |-> 380,
      base_monthly_fee |-> 36500, peak_calc_method |-> method] :
        m \in {{11, 12, 1, 2, 3}, {}}, method \in {"single", "avg3", "avg5"}}

\* calc_total_cost(hourly_kw, spot_prices, tariff, timestamps, 1) for hours
\* that start on Wed 1 Jan 00:00 or 04:00, Fri 3 Jan 20:00 or Sat 4 Jan 08:00
CostCalls ==
    {[fn |-> "calc_total_cost", hourly_kw |-> l,
      spot_prices |-> [i \in 1..Len(l) |-> FALLBACK_PRICE_ORE],
      tariff |-> t,
      timestamps |-> [i \in 1..Len(l) |-> first + i - 1], months |-> 1] :
        l \in HourlyLoads, t \in CostTariffs, first \in {0, 4, 68, 80}}

\* a Period element with a start that parses
Period(start, resolution, points) ==
    [start_ok |-> TRUE, start |-> start, resolution |-> resolution,
     points |-> points]

\* a publication document with these periods
Doc(periods) == [wellformed |-> TRUE, periods |-> periods]

\* the orders in which four points can appear
PointOrders == {o \in [1..4 -> 1..4] : \A i, j \in 1..4 : i # j => o[i] # o[j]}

\* the texts of the resolution element; "" is a period without the element
Resolutions == {"PT60M", "PT15M", "PT30M", "PT1H", "PT5M", ""}

\* period starts in UTC minutes: 2024-12-31T23:00Z, 2025-01-01T00:00Z and
\* 2025-01-01T22:30Z
PeriodStarts == {-60, 0, 22 * 60 + 30}

\* the documents given to _parse_xml: the documents of the price source; a
\* period of five points for each resolution and start; the four quarters of
\* one hour, 10, 20, 30 and 40 EUR/MWh, in every order of appearance; two
\* periods that overlap in one hour; a period whose start does not parse;
\* four quarters whose running mean x 1.12 is midway between two hundredths
\* (0.035 and 123.235 ore/kWh); nine quarter-hour points of three periods in
\* one local hour
ParseDocs ==
    Docs
    \cup {Doc(<<Period(st, r, [i \in 1..5 |-> Pt(i, 1000 + 900 * i)])>>) :
             st \in PeriodStarts, r \in Resolutions}
    \cup {Doc(<<Period(-60, "PT15M", [i \in 1..4 |-> Pt(o[i], 1000 * o[i])])>>) :
             o \in PointOrders}
    \cup {Doc(<<Period(-60, "PT30M", [i \in 1..2 |-> Pt(o[i], 1000 * o[i])])>>) :
             o \in {<<1, 2>>, <<2, 1>>}}
    \cup {Doc(<<Period(-60, "PT60M", <<Pt(1, 1000), Pt(2, 2000)>>),
                Period(0, "PT60M", <<Pt(1, 4000), Pt(2, 3000)>>)>>),
          Doc(<<[start_ok |-> FALSE, start |-> 0, resolution |-> "PT60M",
                 points |-> <<Pt(1, 1000)>>]>>)}
    \cup {Doc(<<Period(-60, "PT15M", [i \in 1..4 |-> Pt(i, q[i])])>>) :
             q \in {<<25, 0, 0, 0>>, <<15160, 14127, 16861, 6254>>}}
    \cup {Doc(<<Period(-60, "PT15M", [i \in 1..4 |->
                        Pt(i, <<10299, 10038, 18177, 4327>>[i])]),
                 Period(-60, "PT15M", [i \in 1..4 |->
                        Pt(i, <<1345, 19350, 11511, 8625>>[i])]),
                 Period(-60, "PT15M", <<Pt(1, 5594)>>)>>)}

\* _parse_xml(xml_text, start, end)
ParseCalls == {[fn |-> "_parse_xml", xml_text |-> d] : d \in ParseDocs}

\* the price series of a grid of n hours for _naive_ev_schedule: rising,
\* falling, flat, and equal prices at the two ends of the grid
NaiveSpots(n) ==
    {[i \in 1..n |-> 4592 + 112 * (i - 1)],
     [i \in 1..n |-> 12000 - 112 * (i - 1)],
     [i \in 1..n |-> 12000],
     [i \in 1..n |-> IF i \in {1, n} THEN 4592 ELSE 12000 - 112 * i]}

\* _naive_ev_schedule(n, fleet_kw, kwh_needed, arrival_hour, departure_hour,
\* spot, timestamps) on the grids of one hour and of 25 hours: windows of no,
\* two, three, five and all hours, a demand of nothing, of less than one hour
\* of the fleet, of whole hours, with a rest, and above every window
NaiveCalls ==
    UNION {{[fn |-> "_naive_ev_schedule", n |-> Len(Timestamps(0, k)),
             fleet_kw |-> f, kwh_needed |-> e,
             arrival_hour |-> w[1], departure_hour |-> w[2],
             spot |-> spot, timestamps |-> Timestamps(0, k)] :
               f \in {0, 5, 6}, e \in {0, 4, 12, 13, 200},
               w \in {<<5, 5>>, <<5, 7>>, <<23, 1>>, <<22, 2>>, <<0, 24>>},
               spot \in NaiveSpots(Len(Timestamps(0, k)))} :
           k \in {0, 1}}

\* the variates of _syntetiska_spotpriser called on its own, one per hour:
\* the ends and the middle of the range, the same in every hour or two of
\* them in turn
SyntheticDraws(n) ==
    {[i \in 1..n |-> IF i % 2 = 1 THEN a ELSE b] :
        a \in {0, DrawScale \div 2, DrawScale},
        b \in {0, DrawScale \div 2, DrawScale}}

\* _syntetiska_spotpriser(n, area) for grids of 1, 24 and 25 hours
SyntheticCalls ==
    {[fn |-> "_syntetiska_spotpriser", n |-> n, area |-> "SE3"] : n \in {1, 24, 25}}

FnCalls ==
    FallbackCalls \cup ClampCalls \cup IsPeakCalls \cup CostCalls
    \cup ParseCalls \cup NaiveCalls \cup SyntheticCalls

InitFn ==
    /\ InitFetch
    /\ SimIdle
    /\ fn_call \in FnCalls
    /\ fn_ret = NoFnRet

\* the call returns value
Return(value) ==
    /\ fn_ret = NoFnRet
    /\ fn_ret' = [returned |-> TRUE, value |-> value]
    /\ UNCHANGED fn_call
    /\ UNCHANGED fetch_vars
    /\ UNCHANGED sim_vars

CallFallbackPrices ==
    /\ fn_call.fn = "_fallback_prices"
    /\ Return(fallback_prices(fn_call.start, fn_call.end))

CallValidateAndClamp ==
    /\ fn_call.fn = "_validate_and_clamp"
    /\ Return(validate_and_clamp(fn_call.prices))

CallIsPeakHour ==
    /\ fn_call.fn = "is_peak_hour"
    /\ Return(is_peak_hour(fn_call.tariff, fn_call.dt))

CallCalcTotalCost ==
    /\ fn_call.fn = "calc_total_cost"
    /\ \E cost \in calc_total_cost(fn_call.hourly_kw, fn_call.spot_prices,
                                    fn_call.tariff, fn_call.timestamps,
                                    fn_call.months) :
          Return(cost)

CallParseXml ==
    /\ fn_call.fn = "_parse_xml"
    /\ \E above \in FloatErrors(fn_call.xml_text) :
          Return(parse_xml(fn_call.xml_text, above))

CallNaiveEvSchedule ==
    /\ fn_call.fn = "_naive_ev_schedule"
    /\ Return(naive_ev_schedule(fn_call.n, fn_call.fleet_kw, fn_call.kwh_needed,
                                fn_call.arrival_hour, fn_call.departure_hour,
                                fn_call.spot, fn_call.timestamps))

CallSyntetiskaSpotpriser ==
    /\ fn_call.fn = "_syntetiska_spotpriser"
    /\ \E r \in SyntheticDraws(fn_call.n) :
          Return(syntetiska_spotpriser(fn_call.n, r))

NextFn ==
    \/ CallFallbackPrices
    \/ CallValidateAndClamp
    \/ CallIsPeakHour
    \/ CallCalcTotalCost
    \/ CallParseXml
    \/ CallNaiveEvSchedule
    \/ CallSyntetiskaSpotpriser

SpecFn == InitFn /\ [][NextFn]_vars

-----------------------------------------------------------------------------
(* routes/simulation: run_sim enriches the request with the prices of the
   price source, then runs the simulation; run_and_store_sim enriches it the
   same way, then runs the simulation between an insert and an update of the
   table simulations *)

\* period_end - period_start of the requests that reach the route: an end
\* before the start, a single day, two days
RoutePeriodDays == {-1, 0, 1}

\* the requests posted to the route: no prices of their own, the property in
\* a known or an unknown bidding zone, a fleet that charges over midnight
RouteRequests ==
    {[r EXCEPT !.property.grid_area = a] :
        r \in {q \in UNION {RequestsFor(d, d + k) : d \in Days, k \in RoutePeriodDays} :
                  ~q.spot_prices.present /\ q.fleet.avg_arrival_hour = 23},
        a \in {"SE3", "SE9"}}

\* lines 33-41: the arguments of the call of fetch_day_ahead_prices
enrich_fetch_args(request, id, token) ==
    [id |-> id, grid_area |-> request.property.grid_area,
     start |-> request.period_start, end |-> request.period_end + 1,
     entsoe_api_token |-> token]

\* lines 43-62: the request handed to run_simulation once the call of
\* fetch_day_ahead_prices has ended as fetched records
enrich_with_spot_prices(request, fetched) ==
    IF fetched.raised # "none" THEN request
    ELSE IF fetched.series # <<>>
    THEN [request EXCEPT !.spot_prices = Series(fetched.series)]
    ELSE request

\* line 75: run_simulation(enriched) and the response of the route
RouteRun(fetched) ==
    /\ \E run \in run_simulation(enrich_with_spot_prices(inp, fetched),
                                 last_known_good, now) :
          /\ lp_run' = run.lp_run
          /\ result' = run.result
          /\ last_known_good' = run.last_known_good
          /\ mc_run' = run.mc_run
    /\ sim_pc' = "done"

\* run_sim up to the awaited HTTP call, or to its end when the call of
\* fetch_day_ahead_prices ends without one
RunSimBegin ==
    /\ sim_pc = "received"
    /\ \E token \in Tokens :
          Begin(1, enrich_fetch_args(inp, ncalls + 1, token))
    /\ IF pc'[1] = "awaiting"
       THEN /\ sim_pc' = "enriching"
            /\ UNCHANGED <<lp_run, result, last_known_good, mc_run>>
       ELSE RouteRun(last')
    /\ UNCHANGED <<inp, now, simulations>>
    /\ UNCHANGED fn_vars

\* the HTTP call ends: the rest of fetch_day_ahead_prices, of
\* _enrich_with_spot_prices and of run_sim
RunSimResume ==
    /\ sim_pc = "enriching"
    /\ pc[1] = "awaiting"
    /\ \E resp \in Responses : Resume(1, resp)
    /\ RouteRun(last')
    /\ UNCHANGED <<inp, now, simulations>>
    /\ UNCHANGED fn_vars

\* a call of the database client: it is applied and returns, or it raises
\* and leaves the table as it was
DbOutcomes == {"ok", "raised"}

\* simulation_service.py lines 5-41: run_and_store(request, ...) on the table
\* and the cache of last known good schedules as they are at the call: the
\* set of its possible ends.  The insert adds a row with status running; when
\* it raises, nothing else is done.  Then run_simulation runs and the row is
\* updated to done with the result, which is returned; when that update
\* raises, the row is updated to error (an update that may raise as well) and
\* the exception is raised again.
run_and_store(request, cache, clock, table) ==
    LET sim_id == Len(table) + 1
        inserted == Append(table, [property_id |-> request.property.id,
                                   status |-> "running", result |-> NoResult])
        Ends(run) ==
            {[returned |-> TRUE, ran |-> TRUE, run |-> run,
              simulations |-> [inserted EXCEPT ![sim_id].status = "done",
                                               ![sim_id].result = run.result]]}
            \cup {[returned |-> FALSE, ran |-> TRUE, run |-> run,
                   simulations |-> IF error = "ok"
                                   THEN [inserted EXCEPT ![sim_id].status = "error"]
                                   ELSE inserted] :
                      error \in DbOutcomes}
    IN  {[returned |-> FALSE, ran |-> FALSE, simulations |-> table]}
        \cup UNION {Ends(run) : run \in run_simulation(request, cache, clock)}

\* lines 94-97: run_and_store(enriched, ...) and the response of the route,
\* the result or HTTP 500
RouteRunAndStore(fetched) ==
    \E end \in run_and_store(enrich_with_spot_prices(inp, fetched),
                              last_known_good, now, simulations) :
        /\ simulations' = end.simulations
        /\ sim_pc' = IF end.returned THEN "done" ELSE "failed"
        /\ IF end.ran
           THEN /\ lp_run' = end.run.lp_run
                /\ last_known_good' = end.run.last_known_good
                /\ mc_run' = end.run.mc_run
                /\ result' = IF end.returned THEN end.run.result ELSE NoResult
           ELSE UNCHANGED <<lp_run, result, last_known_good, mc_run>>

\* run_and_store_sim up to the awaited HTTP call, or to its end when the call
\* of fetch_day_ahead_prices ends without one
RunAndStoreSimBegin ==
    /\ sim_pc = "received"
    /\ \E token \in Tokens :
          Begin(1, enrich_fetch_args(inp, ncalls + 1, token))
    /\ IF pc'[1] = "awaiting"
       THEN /\ sim_pc' = "enriching_to_store"
            /\ UNCHANGED <<lp_run, result, last_known_good, simulations, mc_run>>
       ELSE RouteRunAndStore(last')
    /\ UNCHANGED <<inp, now>>
    /\ UNCHANGED fn_vars

\* the HTTP call ends: the rest of fetch_day_ahead_prices, of
\* _enrich_with_spot_prices and of run_and_store_sim
RunAndStoreSimResume ==
    /\ sim_pc = "enriching_to_store"
    /\ pc[1] = "awaiting"
    /\ \E resp \in Responses : Resume(1, resp)
    /\ RouteRunAndStore(last')
    /\ UNCHANGED <<inp, now>>
    /\ UNCHANGED fn_vars

InitRoute ==
    /\ InitFetch
    /\ sim_pc = "received"
    /\ inp \in RouteRequests
    /\ lp_run = NoLpRun
    /\ result = NoResult
    /\ last_known_good = <<>>
    /\ now = 0
    /\ simulations = <<>>
    /\ mc_run = NoMcRun
    /\ FnIdle

NextRoute ==
    \/ RunSimBegin
    \/ RunSimResume
    \/ RunAndStoreSimBegin
    \/ RunAndStoreSimResume

SpecRoute == InitRoute /\ [][NextRoute]_vars

-----------------------------------------------------------------------------
(* The cache of last known good schedules over several runs: requests of
   two properties arrive one after the other, the clock advances between
   them, and _get_last_known_good is called on its own *)

\* optimizer.py line 60: timedelta(hours=24), in hours
MaxAgeHours == 24

\* the clock advances in steps of half the maximal age, MaxTicks times at most
ClockStep == MaxAgeHours \div 2

MaxTicks == 3

\* _get_last_known_good returned None
NoEntry == [present |-> FALSE]

\* lines 55-67: _get_last_known_good(property_id) at the time clock; the
\* dictionary is only read
get_last_known_good(cache, property_id, clock) ==
    IF property_id \notin DOMAIN cache
    THEN NoEntry
    ELSE LET entry == cache[property_id]
             age   == clock - entry.saved_at
         IN  IF age > MaxAgeHours THEN NoEntry ELSE entry

\* the ids of the properties of the requests
PropertyIds == {"p1", "p2"}

\* the requests: one fleet that charges across midnight, the tariff of the
\* scenarios, each series absent or given for the 25 hours of the grid
LkgRequests ==
    {[r EXCEPT !.property.id = id] :
        id \in PropertyIds,
        r \in {q \in RequestsFor(0, 1) :
                 /\ q.fleet.vehicle_count = 2
                 /\ q.fleet.avg_arrival_hour = 23
                 /\ q.tariff.peak_calc_method = "single"
                 /\ q.tariff.capacity_fee_kw > 0
                 /\ q.base_load_profile
                       \in {NoSeries, Series([i \in 1..25 |-> 60])}
                 /\ q.spot_prices
                       \in {NoSeries,
                            Series([i \in 1..25 |->
                                      SpotEntry(0, i, 4592 + 112 * (i - 1))])}}}

\* a request reaches run_simulation
Submit ==
    /\ sim_pc \in {"idle", "done"}
    /\ inp' \in LkgRequests
    /\ sim_pc' = "pending"
    /\ lp_run' = NoLpRun
    /\ result' = NoResult
    /\ mc_run' = NoMcRun
    /\ UNCHANGED <<last_known_good, now, simulations>>
    /\ UNCHANGED fetch_vars
    /\ UNCHANGED fn_vars

\* time passes: datetime.now() of the later calls is larger
Tick ==
    /\ now + ClockStep <= MaxTicks * ClockStep
    /\ now' = now + ClockStep
    /\ UNCHANGED <<sim_pc, inp, lp_run, result, last_known_good, simulations,
                   mc_run>>
    /\ UNCHANGED fetch_vars
    /\ UNCHANGED fn_vars

InitLkg == InitFetch /\ SimIdle /\ FnIdle

NextLkg == Submit \/ RunSimulation \/ Tick

SpecLkg == InitLkg /\ [][NextLkg]_vars

\* The two functions of the cache called on their own

\* the schedules and prices of the calls of _save_last_known_good
SavedSchedules == {<<6, 6, 0>>, <<4, 4, 4>>}

SavedPrices == {<<4592, 4704, 4816>>}

\* a call of _save_last_known_good(property_id, ev_lp, spot)
SaveLastKnownGood ==
    /\ \E property_id \in PropertyIds, ev_lp \in SavedSchedules,
          spot \in SavedPrices :
          last_known_good' = save_last_known_good(last_known_good, property_id,
                                                  ev_lp, spot, now)
    /\ UNCHANGED <<sim_pc, inp, lp_run, result, now, simulations, mc_run>>
    /\ UNCHANGED fetch_vars
    /\ UNCHANGED fn_vars

\* a call of _get_last_known_good(property_id)
GetLastKnownGood ==
    /\ \E property_id \in PropertyIds :
          /\ fn_call' = [fn |-> "_get_last_known_good",
                         property_id |-> property_id, at |-> now]
          /\ fn_ret' = [returned |-> TRUE,
                        value |-> get_last_known_good(last_known_good,
                                                      property_id, now)]
    /\ UNCHANGED sim_vars
    /\ UNCHANGED fetch_vars

NextLkgCalls == SaveLastKnownGood \/ GetLastKnownGood \/ Tick

SpecLkgCalls == InitLkg /\ [][NextLkgCalls]_vars

-----------------------------------------------------------------------------
(* Claims about the price source *)

KnownZone(a) == Upper(a) \in {"SE1", "SE2", "SE3", "SE4"}

SameKey(c1, c2) ==
    c1.grid_area = c2.grid_area /\ c1.start = c2.start /\ c1.end = c2.end

Ascending(series) ==
    \A i \in 1..(Len(series) - 1) : series[i].timestamp < series[i + 1].timestamp

\* the flat series: one entry per hour from start 00:00 to end 23:00 at 120.00
IsFlatSeries(series, start, end) ==
    /\ Len(series) = Max(0, 24 * (end - start + 1))
    /\ \A i \in 1..Len(series) :
          /\ series[i].timestamp = 24 * start + i - 1
          /\ series[i].price_ore_kwh = 12000

\* C1: for a known bidding zone a call of fetch_day_ahead_prices never raises,
\* whatever the upstream does: it returns a series, and when the upstream
\* failed that series is fallback_prices(start, end).
C1_NeverRaises ==
    (last.id > 0 /\ KnownZone(last.grid_area)) =>
        /\ last.raised = "none"
        /\ last.source \in {"cache", "upstream", "fallback"}
        /\ last.source = "fallback" => IsFlatSeries(last.series, last.start, last.end)

\* C2: every series returned for start <= end is non-empty, strictly ascending
\* in its timestamps and has exactly 24 * (days + 1) entries, days = end - start.
C2_RequestedLength ==
    (last.id > 0 /\ last.raised = "none" /\ last.start <= last.end) =>
        /\ Len(last.series) > 0
        /\ Ascending(last.series)
        /\ Len(last.series) = 24 * (last.end - last.start + 1)

\* C3: a call with a zone outside SE1..SE4 raises ValueError whatever the cache
\* and the token are: it returns no series, issues no HTTP request, does not
\* suspend and leaves the price cache unchanged.
C3_UnknownZoneRaises ==
    [][ ncalls' = ncalls + 1 =>
          /\ \A p \in Callers :
                cur'[p].id = ncalls' => KnownZone(cur'[p].grid_area)
          /\ (\A p \in Callers : cur'[p].id # ncalls') =>
                (last'.id = ncalls' /\ pc' = pc)
          /\ (last'.id = ncalls' /\ ~KnownZone(last'.grid_area)) =>
                /\ last'.raised = "ValueError"
                /\ last'.source = "none"
                /\ last'.series = <<>>
                /\ last'.http = 0
                /\ http_calls' = http_calls
                /\ price_cache' = price_cache
      ]_vars

\* C3 witness: a call with an unknown zone and a token was made while the cache
\* held an entry, and raised ValueError
C3_Witness ==
    /\ last.raised = "ValueError"
    /\ last.entsoe_api_token = "token"
    /\ ~KnownZone(last.grid_area)
    /\ price_cache # <<>>

\* C4 as claimed: a fetch with an empty token (known zone) fails upward and no
\* fallback series is substituted.
C4_MissingTokenFailsUpward ==
    (last.id > 0 /\ KnownZone(last.grid_area) /\ last.entsoe_api_token = "") =>
        (last.raised # "none" /\ last.source # "fallback")

\* C4 as amended: a fetch with an empty token (known zone) raises nothing and
\* issues no HTTP request; it returns the cached series on a cache hit and the
\* flat fallback series otherwise.
C4_MissingTokenFallsBack ==
    (last.id > 0 /\ KnownZone(last.grid_area) /\ last.entsoe_api_token = "") =>
        /\ last.raised = "none"
        /\ last.http = 0
        /\ \/ last.source = "cache"
           \/ /\ last.source = "fallback"
              /\ IsFlatSeries(last.series, last.start, last.end)
        /\ \A p \in Callers : cur[p].entsoe_api_token = ""  => pc[p] = "idle"

\* C4 witness: a call with an empty token returned the 24-hour fallback series
C4_Witness ==
    /\ last.id > 0
    /\ KnownZone(last.grid_area)
    /\ last.entsoe_api_token = ""
    /\ last.source = "fallback"
    /\ Len(last.series) = 24

\* C5 as claimed: two successive calls with the same (area, start, end) (known
\* zone, token set) make exactly one HTTP request in total and return the same
\* series.
C5_TwoCallsOneFetch ==
    [][ ( /\ last.id >= 1
          /\ last'.id = last.id + 1
          /\ SameKey(last, last')
          /\ KnownZone(last.grid_area)
          /\ last.entsoe_api_token # "" /\ last'.entsoe_api_token # "" ) =>
            /\ last.http + last'.http = 1
            /\ last'.series = last.series
      ]_vars

\* C5 as amended: when the first of two successive calls with the same
\* (area, start, end) returned a series fetched from the upstream or taken from
\* the cache, and clear_price_cache() has not emptied the cache since, the
\* second makes no HTTP request and returns the same series from the cache, so
\* that exactly one request is made in total when the first fetched; when the
\* first fell back, nothing was cached and a second call with a token goes to
\* the upstream again.
C5_CachedAfterSuccess ==
    [][ ( /\ last.id >= 1
          /\ last'.id = last.id + 1
          /\ SameKey(last, last') ) =>
            /\ ( /\ last.source \in {"upstream", "cache"}
                 /\ CacheKey(last) \in DOMAIN price_cache
                 /\ price_cache[CacheKey(last)] = last.series ) =>
                  /\ last'.source = "cache"
                  /\ last'.raised = "none"
                  /\ last'.http = 0
                  /\ last'.series = last.series
                  /\ last.http + last'.http = (IF last.source = "upstream" THEN 1 ELSE 0)
                  /\ price_cache' = price_cache
            /\ (last.source = "fallback" /\ last.http = 1 /\ last'.entsoe_api_token # "") =>
                  last'.http = 1
      ]_vars

\* C5 witness: the second of two calls with the same key was served from the
\* cache after the first had fetched the series
C5_Witness ==
    /\ last.id = 2
    /\ last.source = "cache"
    /\ http_calls = 1
    /\ Len(last.series) > 0

\* C6: concurrent calls for the same (area, start, end) make at most one
\* outbound HTTP call for that key (no two of them are suspended in client.get
\* at once), and a cache entry once inserted is never replaced: it keeps its
\* series for as long as it is in the cache, which it leaves only when
\* clear_price_cache() empties the cache.
C6_SingleFlight ==
    /\ [](\A p, q \in Callers :
            (p # q /\ pc[p] = "awaiting" /\ pc[q] = "awaiting") =>
                CacheKey(cur[p]) # CacheKey(cur[q]))
    /\ [][\A k \in DOMAIN price_cache :
            \/ k \in DOMAIN price_cache' /\ price_cache'[k] = price_cache[k]
            \/ price_cache' = <<>> /\ last' = last]_vars

-----------------------------------------------------------------------------
(* Claims about the simulation *)

\* the series was given with exactly n entries (n >= 1)
GivenWithLength(series, n) == series.present /\ Len(series.values) = n

\* the hour of the day lies in [a, d) when a <= d, in [a, 24) or [0, d) when a > d
InChargingWindow(h, a, d) ==
    IF a <= d THEN a <= h /\ h < d
    ELSE (a <= h /\ h < 24) \/ (0 <= h /\ h < d)

\* subscription_kw * (1 - safety_margin) of the run, in 1/100000 kW
CeilingOfRun == inp.property.subscription_kw * KwUnit * (100 - lp_run.safety_margin)

\* C7: the result is tagged ok iff the request supplied both a price series
\* and a baseload series of exactly n entries, fallback iff it supplied
\* neither (absent, empty and wrong-length series are not supplied), partial
\* otherwise; the margin passed to the LP is 0.00, 0.05 or 0.10 accordingly.
C7_DataQualityLadder ==
    sim_pc = "done" =>
        LET n     == Len(result.hourly_data)
            spot  == GivenWithLength(inp.spot_prices, n)
            base  == GivenWithLength(inp.base_load_profile, n)
        IN  /\ n >= 1
            /\ result.data_quality \in {"ok", "partial", "fallback"}
            /\ result.data_quality = "ok" <=> (spot /\ base)
            /\ result.data_quality = "fallback" <=> (~spot /\ ~base)
            /\ result.data_quality = "ok" => lp_run.safety_margin = 0
            /\ result.data_quality = "partial" => lp_run.safety_margin = 5
            /\ result.data_quality = "fallback" => lp_run.safety_margin = 10

\* C7 witness: a run with a baseload series of n entries and a non-empty price
\* series of another length was tagged partial and solved with margin 0.05
C7_Witness ==
    /\ sim_pc = "done"
    /\ result.data_quality = "partial"
    /\ lp_run.safety_margin = 5
    /\ Len(inp.base_load_profile.values) = Len(result.hourly_data)
    /\ Len(inp.spot_prices.values) > Len(result.hourly_data)

\* C8 as claimed: in every result and at every hour total_kw_with equals
\* base_kw + ev_kw_with and is at most subscription_kw * (1 - safety_margin)
\* plus a tolerance (0.01 kW here).
C8_TotalWithinCeiling ==
    sim_pc = "done" =>
        \A i \in 1..Len(result.hourly_data) :
            LET h == result.hourly_data[i]
            IN  /\ h.total_kw_with = h.base_kw + h.ev_kw_with
                /\ 1000 * h.total_kw_with <= CeilingOfRun + 1000

\* C8 as amended: at every hour total_kw_with is the rounded sum of the base
\* load and the schedule, within 0.01 kW of base_kw + ev_kw_with (each is
\* rounded on its own); whenever the LP was optimal the unrounded total is at
\* most subscription_kw * (1 - safety_margin), so total_kw_with exceeds it by
\* at most 0.005 kW.  A run whose LP was not optimal returns the naive
\* schedule, which is not held to the ceiling.
C8_TotalWithinCeilingWhenOptimal ==
    sim_pc = "done" =>
        \A i \in 1..Len(result.hourly_data) :
            LET h == result.hourly_data[i]
            IN  /\ h.total_kw_with - (h.base_kw + h.ev_kw_with) \in {-1, 0, 1}
                /\ h.total_kw_with = Round2Kw(lp_run.base_load[i] + lp_run.returned[i])
                /\ lp_run.status = "Optimal" =>
                      /\ 100 * (lp_run.base_load[i] + lp_run.returned[i]) * KwUnit
                            <= CeilingOfRun
                      /\ 1000 * h.total_kw_with <= CeilingOfRun + 500

\* C8 witness: an optimal run with margin 0.05 that charges an hour up to the
\* ceiling, where the rounded total differs from the sum of the rounded parts
C8_Witness ==
    /\ sim_pc = "done"
    /\ lp_run.status = "Optimal"
    /\ lp_run.safety_margin = 5
    /\ \E i \in 1..Len(result.hourly_data) :
          /\ lp_run.returned[i] > 0
          /\ 100 * (lp_run.base_load[i] + lp_run.returned[i]) * KwUnit = CeilingOfRun
          /\ result.hourly_data[i].total_kw_with
                # result.hourly_data[i].base_kw + result.hourly_data[i].ev_kw_with

\* C9: in every result, at every hour whose hour of the day lies outside the
\* charging window ([a, d) when a <= d, [a, 24) and [0, d) when a > d), both
\* ev_kw_with and ev_kw_without are 0, whether the LP was optimal or the
\* baseline schedule was returned in its place.
C9_NoChargingOutsideWindow ==
    sim_pc = "done" =>
        \A i \in 1..Len(result.hourly_data) :
            LET h == result.hourly_data[i]
            IN  ~InChargingWindow(h.timestamp % 24, inp.fleet.avg_arrival_hour,
                                  inp.fleet.avg_departure_hour)
                    => (h.ev_kw_with = 0 /\ h.ev_kw_without = 0)

\* C9 witness: a run over 25 hours with a window across midnight whose LP was
\* infeasible: the baseline schedule was returned and charges inside the window
C9_Witness ==
    /\ sim_pc = "done"
    /\ lp_run.status = "Infeasible"
    /\ inp.fleet.avg_arrival_hour > inp.fleet.avg_departure_hour
    /\ Len(result.hourly_data) = 25
    /\ \E i \in 1..Len(result.hourly_data) : result.hourly_data[i].ev_kw_with > 0
    /\ \E i \in 1..Len(result.hourly_data) : result.hourly_data[i].ev_kw_without > 0

\* C10: whenever the solver returns Optimal, the schedule returned by
\* _lp_ev_schedule delivers at least the energy demand and every x[t] lies in
\* [0, P_fleet]; the values reported per hour, rounded to 0.01 kW, sum to the
\* demand less at most 0.005 kW per hour.
C10_OptimalDeliversDemand ==
    (sim_pc = "done" /\ lp_run.status = "Optimal") =>
        LET n     == Len(lp_run.returned)
            hours == [i \in 1..n |-> i]
            ev    == [i \in 1..n |-> result.hourly_data[i].ev_kw_with]
        IN  /\ SumAt(lp_run.returned, hours, n) >= lp_run.kwh_needed
            /\ \A t \in 1..n :
                  0 <= lp_run.returned[t] /\ lp_run.returned[t] <= lp_run.fleet_kw
            /\ 10 * SumAt(ev, hours, n) >= lp_run.kwh_needed * KwUnit - 5 * n

\* C10 witness: an optimal run with a demand above zero spread over hours
\* charged below the fleet's power
C10_Witness ==
    /\ sim_pc = "done"
    /\ lp_run.status = "Optimal"
    /\ lp_run.kwh_needed > 0
    /\ \E t \in 1..Len(lp_run.returned) :
          0 < lp_run.returned[t] /\ lp_run.returned[t] < lp_run.fleet_kw

-----------------------------------------------------------------------------
(* The cost of the optimised schedule against the cost of the baseline *)

\* C11: in a run whose solver status is Optimal, the cost with the optimised
\* schedule is at most the cost with the baseline schedule (within one ore),
\* for every tariff and every baseline schedule, the ones above the
\* subscription ceiling included
C11_OptimalNeverCostsMore ==
    (sim_pc = "done" /\ lp_run.status = "Optimal")
        => result.cost_with_derivatio <= result.cost_without_derivatio + 1

-----------------------------------------------------------------------------
(* The fallback of the LP to the baseline schedule *)

\* C12: when the solver ends with a status other than Optimal, the schedule
\* returned by _lp_ev_schedule is exactly the baseline schedule computed from
\* the same n, fleet power, energy, arrival, departure, prices and hours, and
\* run_simulation still returns a complete result: a data quality class, one
\* hourly entry per hour of the grid and the two costs, which are then equal.
C12_NonOptimalReturnsBaseline ==
    (sim_pc = "done" /\ lp_run.status # "Optimal") =>
        LET timestamps == Timestamps(inp.period_start, inp.period_end)
            n == Len(timestamps)
        IN  /\ lp_run.returned =
                  naive_ev_schedule(n, lp_run.fleet_kw, lp_run.kwh_needed,
                                    inp.fleet.avg_arrival_hour,
                                    inp.fleet.avg_departure_hour,
                                    lp_run.spot, timestamps)
            /\ result.data_quality \in {"ok", "partial", "fallback"}
            /\ Len(result.hourly_data) = n
            /\ \A i \in 1..n :
                  result.hourly_data[i].ev_kw_with = result.hourly_data[i].ev_kw_without
            /\ result.cost_with_derivatio = result.cost_without_derivatio

\* an infeasible problem and a solver stopped early, each with a baseline
\* that charges
C12_Witness ==
    /\ sim_pc = "done"
    /\ lp_run.status = "Infeasible"
    /\ \E i \in DOMAIN lp_run.returned : lp_run.returned[i] > 0

C12_WitnessNotSolved ==
    /\ sim_pc = "done"
    /\ lp_run.status = "Not Solved"
    /\ \E i \in DOMAIN lp_run.returned : lp_run.returned[i] > 0

\* C13: a run whose LP ended with a status other than Optimal carries a tag
\* in the returned result that tells it from a run of the same data quality
\* class whose LP was optimal: data_quality, the only tag of the result, is
\* then not the plain ok, partial or fallback of the class.
C13_NonOptimalTagged ==
    (sim_pc = "done" /\ lp_run.status # "Optimal")
        => result.data_quality \notin {"ok", "partial", "fallback"}

-----------------------------------------------------------------------------
(* Claims about functions called on their own *)

\* C14: for start <= end, _fallback_prices(start, end) returns exactly
\* 24 * (days + 1) entries, one per hour from start 00:00 to end 23:00, in
\* strictly ascending order, every one at the fallback price of 120 ore/kWh.
C14_FallbackSeries ==
    (fn_call.fn = "_fallback_prices" /\ fn_ret.returned
        /\ fn_call.start <= fn_call.end) =>
        LET prices == fn_ret.value
            hours  == 24 * (fn_call.end - fn_call.start + 1)
        IN  /\ Len(prices) = hours
            /\ prices[1].timestamp = 24 * fn_call.start
            /\ prices[hours].timestamp = 24 * fn_call.end + 23
            /\ \A i \in 1..(hours - 1) :
                  prices[i + 1].timestamp = prices[i].timestamp + 1
            /\ Ascending(prices)
            /\ \A i \in 1..hours : prices[i].price_ore_kwh = 12000

\* January 2025: 31 * 24 entries
C14_Witness ==
    /\ fn_call.fn = "_fallback_prices"
    /\ fn_call.start = 0 /\ fn_call.end = 30
    /\ fn_ret.returned
    /\ Len(fn_ret.value) = 31 * 24

\* C15: _validate_and_clamp maps every negative price to 0 and leaves every
\* other price as it is, the prices above 800 ore/kWh included; the entries
\* keep their number, their order and their timestamps, so no price of the
\* list returned is negative.
C15_ClampKeepsNonNegative ==
    (fn_call.fn = "_validate_and_clamp" /\ fn_ret.returned) =>
        LET given     == fn_call.prices
            validated == fn_ret.value
        IN  /\ Len(validated) = Len(given)
            /\ \A i \in 1..Len(given) :
                  /\ validated[i].timestamp = given[i].timestamp
                  /\ given[i].price_ore_kwh < 0 => validated[i].price_ore_kwh = 0
                  /\ given[i].price_ore_kwh >= 0
                        => validated[i].price_ore_kwh = given[i].price_ore_kwh
                  /\ validated[i].price_ore_kwh >= 0

\* a list with a later hour first, a negative price and a price above 800
C15_Witness ==
    /\ fn_call.fn = "_validate_and_clamp"
    /\ fn_ret.returned
    /\ Len(fn_call.prices) = 2
    /\ fn_call.prices[1].timestamp > fn_call.prices[2].timestamp
    /\ fn_call.prices[1].price_ore_kwh < 0
    /\ fn_call.prices[2].price_ore_kwh > PRICE_MAX_ORE
    /\ fn_ret.value[1].price_ore_kwh = 0
    /\ fn_ret.value[2].price_ore_kwh = fn_call.prices[2].price_ore_kwh

\* C16: is_peak_hour(dt) is true exactly when the month of dt is a peak month,
\* dt is a Monday to Friday if peak_weekdays_only is set, and
\* peak_hours_start <= hour of dt < peak_hours_end.
C16_PeakHourIff ==
    (fn_call.fn = "is_peak_hour" /\ fn_ret.returned) =>
        LET tariff == fn_call.tariff
            dt     == fn_call.dt
        IN  fn_ret.value <=>
                /\ Month(dt) \in tariff.peak_months
                /\ tariff.peak_weekdays_only => Weekday(dt) \in 0..4
                /\ tariff.peak_hours_start <= Hour(dt)
                /\ Hour(dt) < tariff.peak_hours_end

\* Monday 6 January 2025 at 21:00 is a peak hour of a weekday tariff with the
\* peak hours 06-22
C16_Witness ==
    /\ fn_call.fn = "is_peak_hour"
    /\ fn_call.dt = 24 * 5 + 21
    /\ fn_call.tariff.peak_weekdays_only
    /\ fn_call.tariff.peak_months = {11, 12, 1, 2, 3}
    /\ fn_call.tariff.peak_hours_start = 6 /\ fn_call.tariff.peak_hours_end = 22
    /\ fn_ret.returned
    /\ fn_ret.value = TRUE

\* p, in thousandths of a kW, is the mean of the k largest of the values at
\* the indices in S (of all of them when they are fewer), and 0 when S is empty
IsTopMean(p, values, S, k) ==
    IF S = {} THEN p = 0
    ELSE \E T \in SUBSET S :
            /\ Cardinality(T) = Min(k, Cardinality(S))
            /\ \A i \in T, j \in S \ T : values[j] <= values[i]
            /\ p \in RoundFloatDiv(SumAt(values, Sorted(T), Cardinality(T)) * KwUnit,
                                    Cardinality(T))

\* C17: p_max_all is taken over all hours and p_max_peak over the hours for
\* which is_peak_hour holds; each is the maximum for the method single and the
\* mean of the 3 (avg3) or 5 (avg5) largest values otherwise, of all values
\* when they are fewer, and 0 for an empty set; without peak hours p_max_peak
\* and the peak cost are 0 for every method.
C17_PeakPower ==
    (fn_call.fn = "calc_total_cost" /\ fn_ret.returned) =>
        LET hourly_kw == fn_call.hourly_kw
            tariff    == fn_call.tariff
            peak      == {i \in DOMAIN hourly_kw :
                             is_peak_hour(tariff, fn_call.timestamps[i])}
            k         == IF tariff.peak_calc_method = "single" THEN 1
                         ELSE IF tariff.peak_calc_method = "avg3" THEN 3 ELSE 5
        IN  /\ IsTopMean(fn_ret.value.p_max_all, hourly_kw, DOMAIN hourly_kw, k)
            /\ IsTopMean(fn_ret.value.p_max_peak, hourly_kw, peak, k)
            /\ peak = {} => (fn_ret.value.p_max_peak = 0 /\ fn_ret.value.peak_cost = 0)

\* seven hours from Wed 1 Jan 04:00, five of them peak hours, billed on the
\* mean of the five highest: both powers are below the highest hour
C17_Witness ==
    /\ fn_call.fn = "calc_total_cost"
    /\ fn_call.hourly_kw = <<11, 23, 31, 47, 53, 67, 71>>
    /\ fn_call.timestamps[1] = 4
    /\ fn_call.tariff.peak_calc_method = "avg5"
    /\ fn_call.tariff.peak_months # {}
    /\ fn_ret.returned
    /\ fn_ret.value.p_max_peak = 44869
    /\ fn_ret.value.p_max_all < 71 * KwUnit
    /\ fn_ret.value.peak_cost > 0

-----------------------------------------------------------------------------
(* Claims about the hour grid and the route *)

\* C18: the hour grid of run_simulation over [period_start, period_end] has
\* as many hours as the hourly price series of the same dates, 24 * (days + 1):
\* the result has that many hourly entries, and a request that supplies that
\* many prices and that many base load values is classified ok and solved
\* with the margin 0.00.
C18_GridMatchesPriceSeries ==
    sim_pc = "done" =>
        LET hours == 24 * (inp.period_end - inp.period_start + 1)
        IN  /\ Len(result.hourly_data) = hours
            /\ (/\ inp.spot_prices.present
                 /\ Len(inp.spot_prices.values) = hours
                 /\ inp.base_load_profile.present
                 /\ Len(inp.base_load_profile.values) = hours)
                  => (result.data_quality = "ok" /\ lp_run.safety_margin = 0)

\* C19: a request with period_end before period_start is rejected: the route
\* and run_simulation return no result for it, no schedule and no cost is
\* computed and nothing is written to the cache of last known good schedules.
C19_ZeroLengthRejected ==
    inp.period_end < inp.period_start =>
        /\ sim_pc # "done"
        /\ result = NoResult
        /\ lp_run = NoLpRun
        /\ last_known_good = <<>>

\* the call of the price source returned prices of the upstream (fresh or
\* from its cache) for every hour of the days of the request
FetchedForPeriod ==
    /\ last.raised = "none"
    /\ last.source \in {"upstream", "cache"}
    /\ \A h \in (24 * inp.period_start)..(24 * inp.period_end + 23) :
          \E i \in DOMAIN last.series : last.series[i].timestamp = h

\* C20: through the route, the prices fetched are used as real prices exactly
\* when the price source had them from the upstream for the period of the
\* request; otherwise the run uses synthetic prices, is not tagged ok, and
\* still returns a result.
C20_TagFollowsPriceSource ==
    (sim_pc = "done" /\ inp.period_start <= inp.period_end) =>
        /\ lp_run.using_real_spot <=> FetchedForPeriod
        /\ ~FetchedForPeriod
              => (result.data_quality # "ok" /\ result.data_quality # "none")

-----------------------------------------------------------------------------
(* Claims about the cache of last known good schedules *)

\* the step is a run of run_simulation
RunStep == sim_pc = "pending" /\ sim_pc' = "done"

\* the entry an ok run stores
EntryOfRun(run, clock) ==
    [saved_at |-> clock, ev_schedule |-> run.returned, spot_prices |-> run.spot]

\* C21: a run of run_simulation writes the cache of last known good
\* schedules iff its data quality is ok: an ok run stores saved_at = now, its
\* schedule with Derivatio and its prices under the property id of the
\* request and leaves the entries of the other property ids as they were; a
\* partial or fallback run leaves the whole cache as it was.
C21_WritesIffOk ==
    [][RunStep =>
          IF result'.data_quality = "ok"
          THEN /\ DOMAIN last_known_good'
                     = DOMAIN last_known_good \cup {inp.property.id}
               /\ last_known_good'[inp.property.id] = EntryOfRun(lp_run', now)
               /\ \A i \in DOMAIN result'.hourly_data :
                     result'.hourly_data[i].ev_kw_with
                        = Round2Kw(last_known_good'[inp.property.id].ev_schedule[i])
               /\ \A k \in DOMAIN last_known_good \ {inp.property.id} :
                     last_known_good'[k] = last_known_good[k]
          ELSE last_known_good' = last_known_good]_vars

\* an ok run has stored its entry beside the older entry of the other
\* property
C21_Witness ==
    /\ sim_pc = "done"
    /\ result.data_quality = "ok"
    /\ DOMAIN last_known_good = PropertyIds
    /\ last_known_good[inp.property.id].saved_at = now
    /\ \E k \in PropertyIds \ {inp.property.id} :
          last_known_good[k].saved_at < now

\* C22: _get_last_known_good returns the stored entry only when its age is at
\* most 24 hours, returns None for an older entry, and that read removes the
\* older entry: no entry that a read found expired is in the cache afterwards.
C22_ExpiredEntryEvicted ==
    (fn_call.fn = "_get_last_known_good" /\ fn_ret.value = NoEntry) =>
        \/ fn_call.property_id \notin DOMAIN last_known_good
        \/ fn_call.at - last_known_good[fn_call.property_id].saved_at
              <= MaxAgeHours

\* C23: every schedule in the cache is an optimum of the LP of the run that
\* stored it: a run whose LP did not end Optimal, and so returned the
\* baseline schedule, stores nothing.
C23_OnlyOptimaStored ==
    (sim_pc = "done" /\ lp_run.status # "Optimal") =>
        inp.property.id \notin DOMAIN last_known_good

-----------------------------------------------------------------------------
(* Claims about the parser of the price documents *)

\* the resolution in minutes
ResolutionMinutes(text) ==
    IF text = "PT15M" THEN 15 ELSE IF text = "PT30M" THEN 30 ELSE 60

\* the points of the document that have a period start, a position and a
\* price: <<k, j>> is point j of period k
PointsOf(doc) ==
    {kj \in UNION {{<<k, j>> : j \in DOMAIN doc.periods[k].points} :
                      k \in DOMAIN doc.periods} :
        /\ doc.periods[kj[1]].start_ok
        /\ doc.periods[kj[1]].points[kj[2]].ok}

\* the local hour of the point: S + (p - 1) r minutes + 1 hour, in hours
LocalHourOf(doc, kj) ==
    LET period == doc.periods[kj[1]]
    IN  (period.start
           + (period.points[kj[2]].position - 1)
               * ResolutionMinutes(period.resolution)
           + 60) \div 60

\* the points of the local hour h
PointsAt(doc, h) == {kj \in PointsOf(doc) : LocalHourOf(doc, kj) = h}

\* EUR/MWh x 1.12 of the point, in 1/10000 ore/kWh
ConvertedPrice(doc, kj) ==
    doc.periods[kj[1]].points[kj[2]].price * EUR_MWH_TO_ORE_KWH

RECURSIVE SumConverted(_, _)
SumConverted(doc, S) ==
    IF S = {} THEN 0
    ELSE LET kj == CHOOSE x \in S : TRUE
         IN  ConvertedPrice(doc, kj) + SumConverted(doc, S \ {kj})

\* C24: _parse_xml gives each Point of position p in a Period of start S and
\* resolution r minutes (PT15M 15, PT30M 30, PT60M, PT1H and unknown texts 60)
\* to the local hour of S + (p - 1) r minutes + 1 hour, with EUR/MWh x 1.12 as
\* its price (to two decimals); the list has exactly one entry per local
\* hour, strictly ascending, 24 entries for the period of 24 hourly points,
\* and is empty when the document has no points.
C24_PointsToLocalHours ==
    (fn_call.fn = "_parse_xml" /\ fn_ret.returned /\ fn_call.xml_text.wellformed) =>
        LET doc    == fn_call.xml_text
            prices == fn_ret.value.prices
        IN  /\ fn_ret.value.exc = "none"
            /\ {prices[i].timestamp : i \in DOMAIN prices}
                  = {LocalHourOf(doc, kj) : kj \in PointsOf(doc)}
            /\ \A i \in DOMAIN prices : \A j \in DOMAIN prices :
                  i < j => prices[i].timestamp < prices[j].timestamp
            /\ \A i \in DOMAIN prices :
                  \A kj \in PointsAt(doc, prices[i].timestamp) :
                     PointsAt(doc, prices[i].timestamp) = {kj}
                        => prices[i].price_ore_kwh
                              = RoundDiv(ConvertedPrice(doc, kj), 100)
            /\ PointsOf(doc) = {} => prices = <<>>
            /\ doc = DocDay => Len(prices) = 24

\* five quarter-hour points have been parsed into two local hours
C24_Witness ==
    /\ fn_call.fn = "_parse_xml"
    /\ fn_ret.returned
    /\ fn_call.xml_text.wellformed
    /\ \E k \in DOMAIN fn_call.xml_text.periods :
          /\ fn_call.xml_text.periods[k].resolution = "PT15M"
          /\ Len(fn_call.xml_text.periods[k].points) = 5
    /\ Len(fn_ret.value.prices) = 2

\* C25: for a period of quarter-hour or half-hour resolution, the price of
\* each local hour is the mean of the converted prices of all points of that
\* hour, whatever the order in which the points appear.
C25_SubHourlyMean ==
    (fn_call.fn = "_parse_xml" /\ fn_ret.returned /\ fn_call.xml_text.wellformed) =>
        LET doc    == fn_call.xml_text
            prices == fn_ret.value.prices
        IN  \A i \in DOMAIN prices :
               LET S == PointsAt(doc, prices[i].timestamp)
               IN  (\A kj \in S : doc.periods[kj[1]].resolution \in {"PT15M", "PT30M"})
                      => prices[i].price_ore_kwh
                            = RoundDiv(SumConverted(doc, S), 100 * Cardinality(S))

-----------------------------------------------------------------------------
(* Claims about the baseline scheduler *)

RECURSIVE SumOver(_, _)
\* the sum of x over the indices of S
SumOver(x, S) ==
    IF S = {} THEN 0
    ELSE LET i == CHOOSE j \in S : TRUE IN x[i] + SumOver(x, S \ {i})

\* C26: the baseline schedule has 0 <= x[t] <= P_fleet in every hour and
\* nothing outside the window, delivers min(E_need, |window| P_fleet) in
\* total, has at most one hour loaded partially, and leaves no hour below
\* P_fleet that is strictly cheaper than an hour it charges.
C26_BaselineFillsCheapest ==
    (fn_call.fn = "_naive_ev_schedule" /\ fn_ret.returned) =>
        LET x       == fn_ret.value
            P_fleet == fn_call.fleet_kw
            E_need  == fn_call.kwh_needed
            window  == {i \in 1..fn_call.n :
                          InChargingWindow(Hour(fn_call.timestamps[i]),
                                           fn_call.arrival_hour,
                                           fn_call.departure_hour)}
        IN  /\ DOMAIN x = 1..fn_call.n
            /\ \A t \in 1..fn_call.n : 0 <= x[t] /\ x[t] <= P_fleet
            /\ \A t \in (1..fn_call.n) \ window : x[t] = 0
            /\ SumOver(x, 1..fn_call.n)
                  = Min(E_need, Cardinality(window) * P_fleet)
            /\ Cardinality({t \in window : 0 < x[t] /\ x[t] < P_fleet}) <= 1
            /\ \A s \in window : \A t \in window :
                  (x[s] < P_fleet /\ x[t] > 0)
                     => ~(fn_call.spot[s] < fn_call.spot[t])

\* the schedule delivers the demand with a full hour, a dearer partial hour
\* and a still dearer window hour left alone
C26_Witness ==
    /\ fn_call.fn = "_naive_ev_schedule"
    /\ fn_ret.returned
    /\ \E r, s, t \in 1..fn_call.n :
          /\ fn_ret.value[r] = fn_call.fleet_kw
          /\ 0 < fn_ret.value[s] /\ fn_ret.value[s] < fn_call.fleet_kw
          /\ fn_ret.value[t] = 0
          /\ InChargingWindow(Hour(fn_call.timestamps[t]),
                              fn_call.arrival_hour, fn_call.departure_hour)
          /\ fn_call.spot[r] < fn_call.spot[s]
          /\ fn_call.spot[s] < fn_call.spot[t]
    /\ SumOver(fn_ret.value, 1..fn_call.n) = fn_call.kwh_needed

-----------------------------------------------------------------------------
(* Claims about the Monte Carlo phase *)

\* the baseline schedule of the primary run
PrimaryNaive ==
    naive_ev_schedule(Len(lp_run.spot), lp_run.fleet_kw, lp_run.kwh_needed,
                      inp.fleet.avg_arrival_hour, inp.fleet.avg_departure_hour,
                      lp_run.spot,
                      Timestamps(inp.period_start, inp.period_end))

\* the costs calc_total_cost can give for the primary run with the schedule ev
PrimaryCost(ev) ==
    calc_total_cost([i \in DOMAIN lp_run.base_load |-> lp_run.base_load[i] + ev[i]],
                    lp_run.spot, inp.tariff,
                    Timestamps(inp.period_start, inp.period_end),
                    months_of(inp.period_start, inp.period_end))

\* a jitter of the base load of the primary run by a draw of McDraws
JitteredBaseLoads ==
    {[i \in DOMAIN lp_run.base_load |-> (lp_run.base_load[i] * McDraws[k].base) \div 100] :
        k \in DOMAIN McDraws}

\* C27: the Monte Carlo phase runs 200 trials, each on a jitter of the base
\* load and on the prices of the primary run and with the safety margin of
\* the primary run, and leaves the base load, the prices, the two schedules
\* of the primary run and the cache of last known good schedules as they
\* were: the costs and the hourly data of the result are those of the
\* primary run, whatever the trials draw.
C27_MonteCarloReadOnly ==
    sim_pc = "done" =>
        /\ result.monte_carlo.n_simulations = 200
        /\ mc_run.trials = 200
        /\ mc_run.lp_calls # {}
        /\ \A call \in mc_run.lp_calls :
              /\ call.safety_margin = lp_run.safety_margin
              /\ call.spot = lp_run.spot
              /\ call.base_load \in JitteredBaseLoads
        /\ DOMAIN result.hourly_data = DOMAIN lp_run.base_load
        /\ \A i \in DOMAIN result.hourly_data :
              LET row == result.hourly_data[i]
              IN  /\ row.base_kw = Round2Kw(lp_run.base_load[i])
                  /\ row.spot_price = lp_run.spot[i]
                  /\ row.ev_kw_without = Round2Kw(PrimaryNaive[i])
                  /\ row.ev_kw_with = Round2Kw(lp_run.returned[i])
                  /\ row.total_kw_without
                        = Round2Kw(lp_run.base_load[i] + PrimaryNaive[i])
                  /\ row.total_kw_with
                        = Round2Kw(lp_run.base_load[i] + lp_run.returned[i])
        /\ result.cost_without_derivatio
              \in {c.total : c \in PrimaryCost(PrimaryNaive)}
        /\ result.cost_with_derivatio
              \in {c.total : c \in PrimaryCost(lp_run.returned)}
        /\ last_known_good
              = IF result.data_quality = "ok"
                THEN save_last_known_good(<<>>, inp.property.id, lp_run.returned,
                                          lp_run.spot, now)
                ELSE <<>>

\* a run with a margin has ended with an optimal schedule that charges, after
\* 200 trials of which one ran on a lower and one on a higher base load than
\* the primary run, one with another window, and one saved money
C27_Witness ==
    /\ sim_pc = "done"
    /\ mc_run.trials = n_sim
    /\ lp_run.status = "Optimal"
    /\ lp_run.safety_margin > 0
    /\ \E i \in DOMAIN lp_run.returned : lp_run.returned[i] > 0
    /\ \E call \in mc_run.lp_calls :
          /\ call.safety_margin > 0
          /\ \E i \in DOMAIN call.base_load :
                call.base_load[i] < lp_run.base_load[i]
    /\ \E call \in mc_run.lp_calls :
          \E i \in DOMAIN call.base_load : call.base_load[i] > lp_run.base_load[i]
    /\ \E call \in mc_run.lp_calls :
          /\ call.base_load = lp_run.base_load
          /\ call.arrival_hour # inp.fleet.avg_arrival_hour
          /\ call.departure_hour # inp.fleet.avg_departure_hour
    /\ \E saving \in mc_run.savings : saving > 0

-----------------------------------------------------------------------------
(* Claims about the synthetic prices *)

\* the hour class of entry i of a synthetic series
SyntheticHour(i) == (i - 1) % 24

\* every entry of the returned series lies in [lo, hi] ore/kWh for its class
SyntheticWithin(night_lo, night_hi) ==
    \A i \in DOMAIN fn_ret.value :
        LET h == SyntheticHour(i)
            v == fn_ret.value[i]
        IN  IF h \in {7, 8, 9, 17, 18, 19, 20}
            THEN 150 * DrawScale <= v /\ v <= 200 * DrawScale
            ELSE IF h \in 0..4
            THEN night_lo * DrawScale <= v /\ v <= night_hi * DrawScale
            ELSE 120 * DrawScale <= v /\ v <= 160 * DrawScale

\* C28: every synthetic price lies in the range of its hour class around the
\* base of 120: 150..200 for the hours 7, 8, 9, 17, 18, 19 and 20, 100..120
\* for the hours 0..4 (never above the base), 120..160 for the other hours.
C28_SyntheticRanges ==
    (fn_call.fn = "_syntetiska_spotpriser" /\ fn_ret.returned) =>
        SyntheticWithin(100, 120)

\* C28 as the code has it: the hours 0..4 get the base plus a draw between
\* -20 and +10, not below 0, so they lie in 100..130 and can exceed the base;
\* the other two ranges are as stated.
C28_SyntheticRangesAsCoded ==
    (fn_call.fn = "_syntetiska_spotpriser" /\ fn_ret.returned) =>
        /\ Len(fn_ret.value) = fn_call.n
        /\ SyntheticWithin(100, 130)

\* a series of a whole day and more has been returned with a night hour at
\* 130 and the next at 100, another hour at 160 and a peak hour at 200
C28_Witness ==
    /\ fn_call.fn = "_syntetiska_spotpriser"
    /\ fn_ret.returned
    /\ fn_call.n = 25
    /\ fn_ret.value[1] = 130 * DrawScale
    /\ fn_ret.value[2] = 100 * DrawScale
    /\ fn_ret.value[7] = 160 * DrawScale
    /\ fn_ret.value[9] = 200 * DrawScale

-----------------------------------------------------------------------------
(* Claims about the price cache *)

\* what _validate_and_clamp(_parse_xml(.)) gives for the documents of the
\* upstream that hold prices
UpstreamSeries ==
    UNION {{validate_and_clamp(parse_xml(d, above).prices) : above \in FloatErrors(d)} :
              d \in {x \in Docs : parse_xml(x, {}).exc = "none"
                                     /\ parse_xml(x, {}).prices # <<>>}}

FromUpstream(series) == series \in UpstreamSeries

\* the key of the completed call
KeyOfCall(call) == <<call.grid_area, call.start, call.end>>

\* C29: after any sequence of calls of fetch_day_ahead_prices, every entry of
\* the price cache is a non-empty series, ascending in time, with prices >= 0,
\* stored by a call for that key whose upstream fetch and parse succeeded; a
\* call that returns the fallback leaves the cache as it was and its key
\* uncached, so that the next call with the key goes to the upstream again.
\* Apart from such a store, the cache changes only when clear_price_cache()
\* empties it, which no call does.
C29_CacheHoldsUpstreamSeries ==
    [][/\ \A k \in DOMAIN price_cache' :
             /\ price_cache'[k] # <<>>
             /\ Ascending(price_cache'[k])
             /\ \A i \in DOMAIN price_cache'[k] :
                   price_cache'[k][i].price_ore_kwh >= 0
             /\ FromUpstream(price_cache'[k])
       /\ price_cache' # price_cache =>
             \/ /\ price_cache' = <<>>
                /\ last' = last /\ ncalls' = ncalls /\ pc' = pc
             \/ /\ last' # last
                /\ last'.raised = "none"
                /\ last'.source = "upstream"
                /\ DOMAIN price_cache' = DOMAIN price_cache \cup {KeyOfCall(last')}
                /\ price_cache'[KeyOfCall(last')] = last'.series
                /\ \A k \in DOMAIN price_cache \ {KeyOfCall(last')} :
                      price_cache'[k] = price_cache[k]
       /\ (last' # last /\ last'.source = "fallback") =>
             /\ price_cache' = price_cache
             /\ KeyOfCall(last') \notin DOMAIN price_cache'
      ]_vars

\* with an entry in the cache, a call for another key has reached the
\* upstream, failed there and returned the fallback
C29_Witness ==
    /\ DOMAIN price_cache # {}
    /\ last.source = "fallback"
    /\ last.http = 1
    /\ KeyOfCall(last) \notin DOMAIN price_cache

-----------------------------------------------------------------------------
(* Claims about the two billing peaks *)

\* C30: for every load series, timestamps and tariff, and for each of the
\* methods single, avg3 and avg5, the billing peak of the peak hours is not
\* above the billing peak of all hours: p_max_peak <= p_max_all.
C30_PeakWindowBelowOverall ==
    (fn_call.fn = "calc_total_cost" /\ fn_ret.returned) =>
        fn_ret.value.p_max_peak <= fn_ret.value.p_max_all

=============================================================================
